---- MODULE Spec2Model ----
(***************************************************************************)
(* A model of the spectral-decay engine and its ring buffer.               *)
(*                                                                         *)
(*   src/src/ring_buffer.rs     RingBuffer<T>                              *)
(*   src/src/spectral_decay.rs  SpectralDecay, SpectralDecayParameters     *)
(*                                                                         *)
(* Slices and vectors are sequences; a Rust index i is position i + 1 of   *)
(* the sequence.  A panic (a failed assert!, an out-of-range slice, a      *)
(* usize underflow) is a result with ok = FALSE; the state a panicking     *)
(* call leaves behind is the one it had reached when it panicked.          *)
(***************************************************************************)
EXTENDS Integers, Sequences, FiniteSets, TLC

VARIABLES
  engine,    \* a SpectralDecay engine
  consumed,  \* history: how many input samples engine has consumed
  nset,      \* history: how many set_params calls engine took since Init
  tset,      \* history: the samples consumed when it was last called
  rb,        \* a stand-alone RingBuffer<u8>
  stream,    \* history: every value that entered rb (initial fill first)
  written,   \* history: how many of them were written after construction
  removed,   \* history: how many of them have left the live region
  ret,       \* what the last call handed back to its caller
  call,      \* the last call and its arguments
  pc         \* "ready", or "returned" / "panicked" by the last call

rbvars == <<rb, stream, written, removed>>

sdvars == <<engine, consumed, nset, tset>>

vars == <<engine, consumed, nset, tset, rb, stream, written, removed, ret, call, pc>>

----------------------------------------------------------------------------
(* Bounds of the ring-buffer exploration.                                  *)

\* largest capacity a stand-alone buffer is created with
MaxCap == 3
\* most values ever written into a stand-alone buffer after construction
MaxWrites == 4

----------------------------------------------------------------------------
(* Helpers on sequences.                                                    *)

Min(a, b) == IF a <= b THEN a ELSE b

Max(a, b) == IF a >= b THEN a ELSE b

Abs(a) == IF a >= 0 THEN a ELSE -a

\* src[lo..hi] in Rust: the elements at indices lo, ..., hi - 1
Slice(s, lo, hi) == [k \in 1..(hi - lo) |-> s[lo + k]]

\* the elements of data at the (0-based) indices idx, in order
ReadAt(data, idx) == [k \in 1..Len(idx) |-> data[idx[k] + 1]]

\* data with vals[k] stored at (0-based) index idx[k]
WriteAt(data, idx, vals) ==
  [i \in 1..Len(data) |->
     IF \E k \in 1..Len(idx) : idx[k] = i - 1
     THEN vals[CHOOSE k \in 1..Len(idx) : idx[k] = i - 1]
     ELSE data[i]]

Fill(n, v) == [k \in 1..n |-> v]

----------------------------------------------------------------------------
(* RingBuffer<T>  (src/src/ring_buffer.rs)                                  *)

\* Default::default() of the element type u8
DefaultU8 == 0

\* a buffer that starts empty whatever `filled` says
RingBuffer_new_empty(size, filled, zero) ==
  [data |-> Fill(size, zero), size |-> size, start |-> 0, len |-> 0]

RingBuffer_new(size, filled, zero) ==
  [data |-> Fill(size, zero), size |-> size, start |-> 0,
   len |-> IF filled THEN size ELSE 0]

RingBuffer_len(b) == b.len

RingBuffer_end(b) ==
  LET e == b.start + b.len IN
  IF e >= b.size THEN e - b.size ELSE e

\* start after `self.start += n; if self.start > self.size { ... }`
AdvanceStart(b, n) ==
  LET s == b.start + n IN IF s > b.size THEN s - b.size ELSE s

remove(b, count) ==
  IF ~(count <= b.len) THEN [ok |-> FALSE, buf |-> b]
  ELSE [ok |-> TRUE,
        buf |-> [b EXCEPT !.start = AdvanceStart(b, count),
                          !.len = b.len - count]]

\* (split, range): ok is FALSE when `start - end` underflows
split_range(b, start, len) ==
  LET e == start + len IN
  IF e <= b.size
  THEN [ok |-> TRUE, split |-> 0, lo |-> start, hi |-> e]
  ELSE LET e2 == e - b.size IN
       [ok |-> (start >= e2 /\ b.size >= e2),
        split |-> e2, lo |-> start - e2, hi |-> b.size - e2]

\* split_range_relative without its first assertion
split_range_relative_unchecked(b, start) ==
  IF ~(-start <= b.len)
  THEN [ok |-> FALSE, split |-> 0, lo |-> 0, hi |-> 0]
  ELSE LET count == IF start >= 0 THEN b.len - start ELSE -start
           s0 == b.start + b.len - count
           s == IF s0 > b.size THEN s0 - b.size ELSE s0
       IN split_range(b, s, count)

split_range_relative(b, start) ==
  IF ~(start < b.len) \/ ~(-start <= b.len)
  THEN [ok |-> FALSE, split |-> 0, lo |-> 0, hi |-> 0]
  ELSE LET count == IF start >= 0 THEN b.len - start ELSE -start
           s0 == b.start + b.len - count
           s == IF s0 > b.size THEN s0 - b.size ELSE s0
       IN split_range(b, s, count)

\* `let (tail, head) = data.split_at(split); let head = &head[range];`
\* as the 0-based indices of data the two slices cover; ok is FALSE when
\* split_at or the range index panics
Views(b, sr) ==
  LET n == Len(b.data) IN
  IF ~sr.ok \/ sr.split > n \/ sr.lo > sr.hi \/ sr.hi > n - sr.split
  THEN [ok |-> FALSE, head |-> <<>>, tail |-> <<>>]
  ELSE [ok |-> TRUE,
        head |-> [k \in 1..(sr.hi - sr.lo) |-> sr.split + sr.lo + k - 1],
        tail |-> [k \in 1..sr.split |-> k - 1]]

slices_append(b, len) ==
  IF ~(b.len <= b.size /\ len <= b.size - b.len)
  THEN [ok |-> FALSE, buf |-> b, head |-> <<>>, tail |-> <<>>]
  ELSE LET v == Views(b, split_range(b, RingBuffer_end(b), len)) IN
       IF ~v.ok THEN [ok |-> FALSE, buf |-> b, head |-> <<>>, tail |-> <<>>]
       ELSE [ok |-> TRUE, buf |-> [b EXCEPT !.len = b.len + len],
             head |-> v.head, tail |-> v.tail]

slices_remove(b, len) ==
  IF ~(len <= b.len)
  THEN [ok |-> FALSE, buf |-> b, head |-> <<>>, tail |-> <<>>]
  ELSE LET v == Views(b, split_range(b, b.start, len)) IN
       IF ~v.ok THEN [ok |-> FALSE, buf |-> b, head |-> <<>>, tail |-> <<>>]
       ELSE [ok |-> TRUE,
             buf |-> [b EXCEPT !.start = AdvanceStart(b, len),
                               !.len = b.len - len],
             head |-> v.head, tail |-> v.tail]

slices_replace(b, len) ==
  IF ~(b.len = b.size)
  THEN [ok |-> FALSE, buf |-> b, head |-> <<>>, tail |-> <<>>]
  ELSE LET v == Views(b, split_range(b, b.start, len)) IN
       IF ~v.ok THEN [ok |-> FALSE, buf |-> b, head |-> <<>>, tail |-> <<>>]
       ELSE [ok |-> TRUE, buf |-> [b EXCEPT !.start = AdvanceStart(b, len)],
             head |-> v.head, tail |-> v.tail]

\* the two slices chained the wrong way round
Chain_tail_first(s) == s.tail \o s.head

\* head.iter().chain(tail.iter()): the indices the iterator visits, in order
Chain(s) == s.head \o s.tail

\* iter_append(len) whose caller stores vals through the iterator
iter_append(b, len, vals) ==
  LET s == slices_append(b, len) IN
  IF ~s.ok THEN [ok |-> FALSE, buf |-> s.buf, out |-> <<>>]
  ELSE [ok |-> TRUE,
        buf |-> [s.buf EXCEPT !.data = WriteAt(s.buf.data, Chain(s), vals)],
        out |-> <<>>]

iter_remove(b, len) ==
  LET s == slices_remove(b, len) IN
  IF ~s.ok THEN [ok |-> FALSE, buf |-> s.buf, out |-> <<>>]
  ELSE [ok |-> TRUE, buf |-> s.buf, out |-> ReadAt(s.buf.data, Chain(s))]

\* iter_replace(len) whose caller reads every slot, then stores vals in it
iter_replace(b, len, vals) ==
  LET s == slices_replace(b, len) IN
  IF ~s.ok THEN [ok |-> FALSE, buf |-> s.buf, out |-> <<>>]
  ELSE [ok |-> TRUE,
        buf |-> [s.buf EXCEPT !.data = WriteAt(s.buf.data, Chain(s), vals)],
        out |-> ReadAt(s.buf.data, Chain(s))]

iter(b, start) ==
  LET v == Views(b, split_range_relative(b, start)) IN
  IF ~v.ok THEN [ok |-> FALSE, buf |-> b, out |-> <<>>]
  ELSE [ok |-> TRUE, buf |-> b, out |-> ReadAt(b.data, Chain(v))]

\* the indices of an iter_mut that starts at the head whatever the offset
iter_mut_slots_from_head(b, start) ==
  LET v == Views(b, split_range_relative(b, 0)) IN
  [ok |-> v.ok, idx |-> Chain(v)]

\* the indices iter_mut(start) hands out, in order
iter_mut_slots(b, start) ==
  LET v == Views(b, split_range_relative(b, start)) IN
  [ok |-> v.ok, idx |-> Chain(v)]

\* iter_mut(start) whose caller stores vals through the iterator
iter_mut(b, start, vals) ==
  LET v == iter_mut_slots(b, start) IN
  IF ~v.ok THEN [ok |-> FALSE, buf |-> b, out |-> <<>>]
  ELSE [ok |-> TRUE,
        buf |-> [b EXCEPT !.data = WriteAt(b.data, v.idx, vals)],
        out |-> ReadAt(b.data, v.idx)]

copy_append(b, src) ==
  LET s == slices_append(b, Len(src))
      split == Len(s.head)
  IN
  IF ~s.ok THEN [ok |-> FALSE, buf |-> s.buf, out |-> <<>>]
  ELSE IF Len(s.tail) # Len(src) - split
  THEN [ok |-> FALSE,
        buf |-> [s.buf EXCEPT !.data =
                   WriteAt(s.buf.data, s.head, Slice(src, 0, split))],
        out |-> <<>>]
  ELSE [ok |-> TRUE,
        buf |-> [s.buf EXCEPT !.data = WriteAt(s.buf.data, Chain(s), src)],
        out |-> <<>>]

\* copy_remove(dst) with dst.len() = n; out is dst afterwards
copy_remove(b, n) ==
  LET s == slices_remove(b, n)
      split == Len(s.head)
  IN
  IF ~s.ok \/ Len(s.tail) # n - split
  THEN [ok |-> FALSE, buf |-> s.buf, out |-> <<>>]
  ELSE [ok |-> TRUE, buf |-> s.buf, out |-> ReadAt(s.buf.data, Chain(s))]

\* copy_replace that stores src before it copies the old values to dst
copy_replace_src_first(b, src, dstlen, zero) ==
  IF src = <<>> /\ dstlen = <<>> THEN [ok |-> FALSE, buf |-> b, out |-> <<>>]
  ELSE IF src # <<>> /\ dstlen # <<>> /\ Len(src[1]) # dstlen[1]
  THEN [ok |-> FALSE, buf |-> b, out |-> <<>>]
  ELSE
    LET len == IF src # <<>> THEN Len(src[1]) ELSE dstlen[1]
        s == slices_replace(b, len)
        data2 == WriteAt(s.buf.data, Chain(s),
                         IF src # <<>> THEN src[1] ELSE Fill(len, zero))
    IN
    IF ~s.ok THEN [ok |-> FALSE, buf |-> s.buf, out |-> <<>>]
    ELSE [ok |-> TRUE, buf |-> [s.buf EXCEPT !.data = data2],
          out |-> IF dstlen # <<>> THEN ReadAt(data2, Chain(s)) ELSE <<>>]

\* copy_replace that leaves the slots it drained as they were when there
\* is no src
copy_replace_unreset(b, src, dstlen, zero) ==
  IF src = <<>> /\ dstlen = <<>> THEN [ok |-> FALSE, buf |-> b, out |-> <<>>]
  ELSE IF src # <<>> /\ dstlen # <<>> /\ Len(src[1]) # dstlen[1]
  THEN [ok |-> FALSE, buf |-> b, out |-> <<>>]
  ELSE
    LET len == IF src # <<>> THEN Len(src[1]) ELSE dstlen[1]
        s == slices_replace(b, len)
        split == Len(s.head)
    IN
    IF ~s.ok \/ Len(s.tail) # len - split
    THEN [ok |-> FALSE, buf |-> s.buf, out |-> <<>>]
    ELSE [ok |-> TRUE,
          buf |-> [s.buf EXCEPT !.data =
                     IF src # <<>> THEN WriteAt(s.buf.data, Chain(s), src[1])
                     ELSE s.buf.data],
          out |-> IF dstlen # <<>> THEN ReadAt(s.buf.data, Chain(s))
                  ELSE <<>>]

\* copy_replace(src, dst): src and dst are <<>> for None and <<x>> for
\* Some(x), dst being given by its length; out is dst afterwards
copy_replace(b, src, dstlen, zero) ==
  IF src = <<>> /\ dstlen = <<>> THEN [ok |-> FALSE, buf |-> b, out |-> <<>>]
  ELSE IF src # <<>> /\ dstlen # <<>> /\ Len(src[1]) # dstlen[1]
  THEN [ok |-> FALSE, buf |-> b, out |-> <<>>]
  ELSE
    LET len == IF src # <<>> THEN Len(src[1]) ELSE dstlen[1]
        s == slices_replace(b, len)
        split == Len(s.head)
    IN
    IF ~s.ok \/ Len(s.tail) # len - split
    THEN [ok |-> FALSE, buf |-> s.buf, out |-> <<>>]
    ELSE [ok |-> TRUE,
          buf |-> [s.buf EXCEPT !.data =
                     WriteAt(s.buf.data, Chain(s),
                             IF src # <<>> THEN src[1] ELSE Fill(len, zero))],
          out |-> IF dstlen # <<>> THEN ReadAt(s.buf.data, Chain(s))
                  ELSE <<>>]

----------------------------------------------------------------------------
(* f32 arithmetic.  A finite f32 is neg, m, e with value (+/-) m * 2^e and  *)
(* m = 0 or 2^23 <= m < 2^24; operations round to nearest, ties to even,   *)
(* as IEEE 754 single precision does.                                      *)

Two23 == 2^23

Two24 == 2^24

F32(neg, m, e) == [nan |-> FALSE, neg |-> neg /\ m # 0, m |-> m, e |-> e]

F32NaN == [nan |-> TRUE, neg |-> FALSE, m |-> 0, e |-> 0]

F32Zero == F32(FALSE, 0, 0)

\* m0 + 1 when the remainder r of a division by d rounds up, else m0
RoundHalfEven(m0, r, d) ==
  IF 2 * r > d \/ (2 * r = d /\ m0 % 2 = 1) THEN m0 + 1 ELSE m0

Renormalise(neg, m, e) ==
  IF m = Two24 THEN F32(neg, Two23, e + 1) ELSE F32(neg, m, e)

RECURSIVE ShiftFor(_, _)
\* the least s with P < 2^24 * 2^s
ShiftFor(P, s) == IF P \div (2^s) < Two24 THEN s ELSE ShiftFor(P, s + 1)

RECURSIVE QuotientBits(_, _, _, _)
\* long division, a bit at a time: from the quotient m and the remainder
\* r < q of p * 2^k by q to <<m, r, k>> with m >= 2^23
QuotientBits(m, r, q, k) ==
  IF m >= Two23 THEN <<m, r, k>>
  ELSE QuotientBits(2 * m + ((2 * r) \div q), (2 * r) % q, q, k + 1)

\* `n as f32` for a usize n < 2^31: n itself below 2^24, from there on n
\* rounded to 24 significant bits, ties to even
F32OfUsize(n) ==
  IF n = 0 THEN F32Zero
  ELSE IF n < Two24
  THEN LET d == QuotientBits(n, 0, 1, 0) IN F32(FALSE, d[1], -d[3])
  ELSE LET s == ShiftFor(n, 0)
           d == 2^s
       IN Renormalise(FALSE, RoundHalfEven(n \div d, n % d, d), s)

\* a / b on f32 for numbers a and b, b not zero, away from overflow and
\* underflow: the quotient of the significands rounded once, ties to even
F32Quot(a, b) ==
  IF a.m = 0 THEN F32Zero
  ELSE LET d == QuotientBits(a.m \div b.m, a.m % b.m, b.m, 0)
           m == RoundHalfEven(d[1], d[2], b.m)
       IN Renormalise(a.neg # b.neg, m, a.e - b.e - d[3])

\* `p as f32 / q as f32` for usize p and q below 2^31, q > 0: each operand
\* is rounded to an f32, then the quotient is rounded once. With p and q
\* below 2^24 it is the f32 nearest to p / q, the value of the decimal
\* literal p/q as well
F32Ratio(p, q) == F32Quot(F32OfUsize(p), F32OfUsize(q))

F32Neg(x) == IF x.nan THEN x ELSE F32(~x.neg, x.m, x.e)

\* x * y on f32, away from overflow and underflow: the exact product of
\* the two 24-bit significands, hi * 2^24 + lo, rounded once to 24 bits,
\* ties to even; a NaN gives a NaN
F32Mul(x, y) ==
  IF x.nan \/ y.nan THEN F32NaN
  ELSE IF x.m = 0 \/ y.m = 0 THEN F32Zero
  ELSE LET h == 2^12
           a == x.m \div h
           b == x.m % h
           c == y.m \div h
           d == y.m % h
           mid == a * d + b * c
           low == (mid % h) * h + b * d
           hi == a * c + (mid \div h) + (low \div Two24)
           lo == low % Two24
           neg == x.neg # y.neg
       IN IF hi >= Two23
          THEN Renormalise(neg, RoundHalfEven(hi, lo, Two24), x.e + y.e + 24)
          ELSE Renormalise(neg, RoundHalfEven(2 * hi + (lo \div Two23),
                                              lo % Two23, Two23),
                           x.e + y.e + 23)

\* x * (n as f32) for a usize n < 2^31
F32MulUsize(x, n) == F32Mul(x, F32OfUsize(n))

\* `x as usize` for x below 2^31: NaN and negative values give 0, the
\* fraction is dropped
F32ToUsize(x) ==
  IF x.nan \/ x.neg \/ x.m = 0 THEN 0
  ELSE IF x.e >= 0 THEN x.m * (2^x.e)
  ELSE IF -x.e > 24 THEN 0
  ELSE x.m \div (2^(-x.e))

\* the integer nearest to x, halves away from zero (f32::round), as usize
F32RoundToUsize(x) ==
  IF x.nan \/ x.neg \/ x.m = 0 THEN 0
  ELSE IF x.e >= 0 THEN x.m * (2^x.e)
  ELSE IF -x.e > 24 THEN 0
  ELSE LET d == 2^(-x.e) IN
       IF 2 * (x.m % d) >= d THEN (x.m \div d) + 1 ELSE x.m \div d

\* a != b on f32
F32Ne(a, b) == a.nan \/ b.nan \/ a # b

----------------------------------------------------------------------------
(* SpectralDecay  (src/src/spectral_decay.rs)                               *)
(*                                                                         *)
(* An input sample is the number of its place in the input stream, from 1; *)
(* 0 is the sample 0.0 the buffers are filled with.  An output sample is   *)
(* the sequence of the grain samples added into it, in the order they were *)
(* added: <<first, last, n>> is sample n of the grain cut from the input   *)
(* samples first .. last.                                                  *)

\* Default::default() of the input samples
ZeroIn == 0

\* Default::default() of an output sample: nothing added yet
ZeroOut == <<>>

\* SpectralDecayParameters::default()
DefaultParameters ==
  [grain_select |-> F32Zero, fuzz |-> F32Zero, loss |-> F32Zero,
   glitch_freq |-> F32Zero, glitch_gain |-> F32Ratio(1, 1),
   delay_select |-> F32Zero]

\* the asserts without the one on the order of the sizes
ValidSizes_unordered(grain_sizes) ==
  /\ Len(grain_sizes) > 0
  /\ \A i \in 1..Len(grain_sizes) : grain_sizes[i] % 4 = 0

\* the three assertions of new
ValidSizes(grain_sizes) ==
  /\ Len(grain_sizes) > 0
  /\ \A i \in 1..Len(grain_sizes) : grain_sizes[i] % 4 = 0
  /\ \A i \in 1..(Len(grain_sizes) - 1) : grain_sizes[i] <= grain_sizes[i + 1]

\* grains[i] is the length of the window of ladder entry i - 1
SpectralDecay_new(grain_sizes) ==
  LET n_max == grain_sizes[Len(grain_sizes)] IN
  [grain_index |-> 0,
   grain_size |-> grain_sizes[1],
   hop |-> grain_sizes[1] \div 4,
   delay_comp |-> (grain_sizes[1] * 5) \div 4,
   offset |-> 0,
   grains |-> grain_sizes,
   in_buf |-> RingBuffer_new(n_max, TRUE, ZeroIn),
   out_buf |-> RingBuffer_new((n_max \div 4) * 5, TRUE, ZeroOut),
   time_buf |-> Fill(n_max, <<0, 0, 0>>),
   params |-> DefaultParameters]

select_to_index(sd, select) ==
  LET num_grains == Len(sd.grains) IN
  Min(F32ToUsize(F32MulUsize(select, num_grains)), num_grains - 1)

\* the delay of the active grain alone
delay_of_grain(sd) == sd.grain_size + sd.hop

delay(sd) == Max(sd.grain_size + sd.hop, sd.delay_comp)

\* the offset of the soft transition rounded to the nearest integer
soft_offset_rounded(offset, hop, new_hop) ==
  F32RoundToUsize(F32MulUsize(F32Ratio(offset, hop), new_hop))

\* lines 99-101: hop_phase = offset / hop; offset = (hop_phase * new_hop) as usize
soft_offset(offset, hop, new_hop) ==
  F32ToUsize(F32MulUsize(F32Ratio(offset, hop), new_hop))

\* a reset already at a factor of exactly 2
hard_reset_from_2(grain_size, prev_grain_size) ==
  Abs(grain_size - prev_grain_size) >= Min(grain_size, prev_grain_size)

\* line 93: the sizes differ by more than a factor of 2
hard_reset(grain_size, prev_grain_size) ==
  Abs(grain_size - prev_grain_size) > Min(grain_size, prev_grain_size)

\* lines 83-104: the grain switch
switch_grain(sd, params) ==
  IF ~F32Ne(params.grain_select, sd.params.grain_select) THEN sd
  ELSE LET grain_index == select_to_index(sd, params.grain_select) IN
       IF sd.grain_index = grain_index THEN sd
       ELSE LET prev_grain_size == sd.grain_size
                grain_size == sd.grains[grain_index + 1]
            IN
            IF hard_reset(grain_size, prev_grain_size)
            THEN [sd EXCEPT !.grain_index = grain_index,
                            !.grain_size = grain_size,
                            !.offset = 0,
                            !.hop = grain_size \div 4]
            ELSE [sd EXCEPT !.grain_index = grain_index,
                            !.grain_size = grain_size,
                            !.hop = grain_size \div 4,
                            !.offset = soft_offset(sd.offset, sd.hop,
                                                   grain_size \div 4)]

\* a delay compensation taken from the grain that is active
delay_comp_of_active(sd, params) ==
  IF F32Ne(params.delay_select, sd.params.delay_select)
  THEN (sd.grain_size \div 4) * 5
  ELSE sd.delay_comp

\* lines 105-109: the delay compensation
delay_comp_of(sd, params) ==
  IF F32Ne(params.delay_select, sd.params.delay_select)
  THEN (sd.grains[select_to_index(sd, params.delay_select) + 1] \div 4) * 5
  ELSE sd.delay_comp

set_params(sd, params) ==
  [switch_grain(sd, params) EXCEPT !.delay_comp = delay_comp_of(sd, params),
                                   !.params = params]

\* a < b on f32, for a that is NaN, zero or positive: false with a NaN
F32Lt(a, b) ==
  /\ ~a.nan
  /\ ~b.nan
  /\ ~b.neg
  /\ b.m # 0
  /\ (a.m = 0 \/ a.e < b.e \/ (a.e = b.e /\ a.m < b.m))

\* norm / max_amp on f32 for 0 <= norm <= max_amp: 0.0 / 0.0 is NaN
F32Div(norm, max_amp) ==
  IF max_amp = 0 THEN F32NaN ELSE F32Ratio(norm, max_amp)

RECURSIVE max_amp_of(_)
\* lines 164-168: the largest magnitude of the bins, from 0.
max_amp_of(norms) ==
  IF norms = <<>> THEN 0 ELSE Max(Head(norms), max_amp_of(Tail(norms)))

\* line 171: glitch_freq / 8. on f32, exact
glitch_threshold(glitch_freq) ==
  IF glitch_freq.nan \/ glitch_freq.m = 0 THEN glitch_freq
  ELSE F32(glitch_freq.neg, glitch_freq.m, glitch_freq.e - 3)

\* line 173: `*x *= k * k * glitch_gain` for a bin x = norm + 0i: the
\* factor is computed from the left, then the bin is scaled by it; the
\* real part that is left, the imaginary part staying 0
glitch(norm, k, glitch_gain) ==
  F32Mul(F32OfUsize(norm), F32Mul(F32Mul(k, k), glitch_gain))

\* the magnitude of x
F32Abs(x) == IF x.nan THEN x ELSE F32(FALSE, x.m, x.e)

\* std::f32::consts::PI, 0x40490fdb
F32Pi == F32(FALSE, 13176795, -22)

\* lines 177-180 for a bin x = norm + 0i, of theta 0: the angle
\* theta + delta * fuzz handed to from_polar, with delta = 2. * PI * k
\* for the draw k of rand()
fuzz_theta(k, fuzz) ==
  F32Mul(F32Mul(F32Mul(F32OfUsize(2), F32Pi), k), fuzz)

\* lines 171-181: one bin x = norm + 0i, with the draw of rand() that
\* decides on a glitch and the draw k of rand() that follows in the rules
\* of glitch and of fuzz: the rule applied, the ratio that was evaluated
\* for the gate, if it was, and the bin that is left.  The rules none,
\* gate and glitch leave a bin whose magnitude f32 arithmetic decides:
\* norm holds it.  The rule of fuzz stores from_polar(r, theta), the bin
\* r * cos(theta) + i * r * sin(theta) as the platform rounds cos, sin
\* and the products: polar holds r and theta, and norm the magnitude
\* only where it does not depend on them, at r = 0 and at theta = 0.
process_bin(norm, max_amp, params, draw, k) ==
  IF F32Lt(draw, glitch_threshold(params.glitch_freq))
  THEN [rule |-> "glitch", ratio |-> <<>>,
        norm |-> <<F32Abs(glitch(norm, k, params.glitch_gain))>>,
        polar |-> <<>>]
  ELSE IF F32Lt(F32Div(norm, max_amp), params.loss)
  THEN [rule |-> "gate", ratio |-> <<F32Div(norm, max_amp)>>,
        norm |-> <<F32Zero>>, polar |-> <<>>]
  ELSE IF F32Lt(F32Zero, params.fuzz)
  THEN [rule |-> "fuzz", ratio |-> <<F32Div(norm, max_amp)>>,
        norm |-> IF norm = 0 \/ fuzz_theta(k, params.fuzz) = F32Zero
                 THEN <<F32OfUsize(norm)>> ELSE <<>>,
        polar |-> <<F32OfUsize(norm), fuzz_theta(k, params.fuzz)>>]
  ELSE [rule |-> "none", ratio |-> <<F32Div(norm, max_amp)>>,
        norm |-> <<F32OfUsize(norm)>>, polar |-> <<>>]

\* sample n of the grain cut from the input samples `read`
Contribution(read, n) == <<read[1], read[Len(read)], n>>

\* ok is FALSE when a ring-buffer call or a slice index panics
process_buffers(sd) ==
  LET d == delay(sd)
      rd == iter(sd.in_buf, -sd.grain_size)
      n == Min(sd.grain_size, Len(rd.out))
      time_buf == [k \in 1..Len(sd.time_buf) |->
                     IF k <= n THEN Contribution(rd.out, k - 1)
                     ELSE sd.time_buf[k]]
      sl == iter_mut_slots(sd.out_buf, d - sd.grain_size)
      m == Min(Len(sl.idx), sd.grain_size)
      idx == SubSeq(sl.idx, 1, m)
      data == sd.out_buf.data
  IN
  IF sd.grain_size > Len(sd.time_buf) \/ ~rd.ok THEN [ok |-> FALSE, sd |-> sd]
  ELSE IF d < sd.grain_size \/ ~sl.ok
  THEN [ok |-> FALSE, sd |-> [sd EXCEPT !.time_buf = time_buf]]
  ELSE [ok |-> TRUE,
        sd |-> [sd EXCEPT
                  !.time_buf = time_buf,
                  !.out_buf.data =
                     WriteAt(data, idx,
                             [k \in 1..m |-> Append(data[idx[k] + 1], time_buf[k])])]]

\* s.chunks(n)
Chunks(s, n) ==
  [i \in 1..((Len(s) + n - 1) \div n) |->
     Slice(s, (i - 1) * n, Min(i * n, Len(s)))]

RECURSIVE hop_loop(_, _, _)
\* lines 126-136: the loop over the chunks, out being the output so far;
\* grains counts the calls of process_buffers
hop_loop(sd, chunks, out) ==
  IF chunks = <<>> THEN [ok |-> TRUE, sd |-> sd, out |-> out, grains |-> 0]
  ELSE
    LET in_chunk == Head(chunks)
        r1 == copy_replace(sd.in_buf, <<in_chunk>>, <<>>, ZeroIn)
        r2 == copy_replace(sd.out_buf, <<>>, <<Len(in_chunk)>>, ZeroOut)
        sd1 == [sd EXCEPT !.in_buf = r1.buf]
        sd2 == [sd1 EXCEPT !.out_buf = r2.buf,
                           !.offset = sd.offset + Len(in_chunk)]
        g == process_buffers([sd2 EXCEPT !.offset = sd2.offset - sd2.hop])
    IN
    IF ~r1.ok THEN [ok |-> FALSE, sd |-> sd1, out |-> out, grains |-> 0]
    ELSE IF ~r2.ok
    THEN [ok |-> FALSE, sd |-> [sd1 EXCEPT !.out_buf = r2.buf], out |-> out,
          grains |-> 0]
    ELSE IF sd2.offset >= sd2.hop
    THEN IF ~g.ok
         THEN [ok |-> FALSE, sd |-> g.sd, out |-> out \o r2.out, grains |-> 1]
         ELSE [hop_loop(g.sd, Tail(chunks), out \o r2.out)
                 EXCEPT !.grains = @ + 1]
    ELSE hop_loop(sd2, Tail(chunks), out \o r2.out)

\* a first chunk that ignores where in the hop cycle the engine is
initial_hop_whole(sd, len) == Min(len, sd.hop)

\* line 117: input.len().min(self.hop - self.offset).  When the offset is
\* beyond the hop and the subtraction is not checked, the difference wraps
\* to 2^64 - (offset - hop), more than the length of any slice
initial_hop(sd, len) ==
  IF sd.hop < sd.offset THEN len ELSE Min(len, sd.hop - sd.offset)

\* lines 119-123: the chunks the loop runs over
in_iter(sd, input) ==
  LET in_head == Slice(input, 0, initial_hop(sd, Len(input)))
      in_tail == Slice(input, initial_hop(sd, Len(input)), Len(input))
  IN <<in_head>> \o Chunks(in_tail, sd.hop)

\* process(input, output) with output.len() = outlen; out is what was
\* stored in output.  `self.hop - self.offset` underflows when the offset
\* is beyond the hop: a build with overflow checks (the debug profile)
\* panics there, a build without them (the release profile) goes on with
\* the wrapped difference.  chunks(0) panics in both.
process(sd, input, outlen, overflow_checks) ==
  IF Len(input) # outlen
  THEN [ok |-> FALSE, sd |-> sd, out |-> <<>>, grains |-> 0]
  ELSE IF sd.hop < sd.offset /\ overflow_checks
  THEN [ok |-> FALSE, sd |-> sd, out |-> <<>>, grains |-> 0]
  ELSE IF sd.hop = 0
  THEN [ok |-> FALSE, sd |-> sd, out |-> <<>>, grains |-> 0]
  ELSE hop_loop(sd, in_iter(sd, input), <<>>)

----------------------------------------------------------------------------
(* The stand-alone ring buffer: one action per public method.  Values      *)
(* written by the caller are numbered in the order they enter the buffer,  *)
(* so that position and order of every element can be told.                *)

\* the next n values a caller writes: the first value written is 1, the
\* second 2, and so on
Fresh(n) == [k \in 1..n |-> written + k]

Lens == 0..(MaxCap + 1)

Offsets == (-(MaxCap + 1))..(MaxCap + 1)

Call(op, arg, hasSrc, hasDst, nd) ==
  [op |-> op, arg |-> arg, hasSrc |-> hasSrc, hasDst |-> hasDst, nd |-> nd]

NoCall ==
  [op |-> "none", arg |-> 0, hasSrc |-> FALSE, hasDst |-> FALSE, nd |-> 0]

InitRB ==
  \E size \in 1..MaxCap, filled \in BOOLEAN :
    /\ rb = RingBuffer_new(size, filled, DefaultU8)
    /\ stream = IF filled THEN Fill(size, DefaultU8) ELSE <<>>
    /\ written = 0
    /\ removed = 0
    /\ ret = <<>>
    /\ call = NoCall
    /\ pc = "ready"
    /\ engine = SpectralDecay_new(<<4>>)
    /\ consumed = 0
    /\ nset = 0
    /\ tset = 0

\* the history after a call that wrote `written` and retired n elements
Account(r, vals, n) ==
  /\ rb' = r.buf
  /\ ret' = r.out
  /\ pc' = IF r.ok THEN "returned" ELSE "panicked"
  /\ stream' = IF r.ok THEN stream \o vals ELSE stream
  /\ written' = IF r.ok THEN written + Len(vals) ELSE written
  /\ removed' = IF r.ok THEN removed + n ELSE removed
  /\ UNCHANGED sdvars

CallRemove ==
  \E n \in Lens :
    /\ pc = "ready"
    /\ Account([ok |-> remove(rb, n).ok, buf |-> remove(rb, n).buf,
                out |-> <<>>], <<>>, n)
    /\ call' = Call("remove", n, FALSE, FALSE, 0)

CallIterAppend ==
  \E n \in Lens :
    /\ pc = "ready"
    /\ written + n <= MaxWrites \/ n > rb.size - rb.len
    /\ Account(iter_append(rb, n, Fresh(n)), Fresh(n), 0)
    /\ call' = Call("iter_append", n, FALSE, FALSE, 0)

CallCopyAppend ==
  \E n \in Lens :
    /\ pc = "ready"
    /\ written + n <= MaxWrites \/ n > rb.size - rb.len
    /\ Account(copy_append(rb, Fresh(n)), Fresh(n), 0)
    /\ call' = Call("copy_append", n, TRUE, FALSE, 0)

CallIterRemove ==
  \E n \in Lens :
    /\ pc = "ready"
    /\ Account(iter_remove(rb, n), <<>>, n)
    /\ call' = Call("iter_remove", n, FALSE, FALSE, 0)

CallCopyRemove ==
  \E n \in Lens :
    /\ pc = "ready"
    /\ Account(copy_remove(rb, n), <<>>, n)
    /\ call' = Call("copy_remove", n, FALSE, TRUE, n)

CallIterReplace ==
  \E n \in Lens :
    /\ pc = "ready"
    /\ written + n <= MaxWrites \/ rb.len # rb.size \/ n > rb.size
    /\ Account(iter_replace(rb, n, Fresh(n)), Fresh(n), n)
    /\ call' = Call("iter_replace", n, FALSE, FALSE, 0)

CallCopyReplace ==
  \E ns \in Lens, nd \in Lens, hasSrc \in BOOLEAN, hasDst \in BOOLEAN :
    LET n == IF hasSrc THEN ns ELSE nd
        vals == IF hasSrc THEN Fresh(ns) ELSE Fill(nd, DefaultU8)
    IN
    /\ pc = "ready"
    /\ hasSrc \/ ns = 0
    /\ hasDst \/ nd = 0
    /\ (hasSrc /\ hasDst) => nd \in {ns, ns + 1}
    /\ \/ written + n <= MaxWrites
       \/ rb.len # rb.size
       \/ n > rb.size
       \/ (hasSrc /\ hasDst /\ ns # nd)
       \/ (~hasSrc /\ ~hasDst)
    /\ Account(copy_replace(rb, IF hasSrc THEN <<Fresh(ns)>> ELSE <<>>,
                            IF hasDst THEN <<nd>> ELSE <<>>, DefaultU8),
               vals, n)
    /\ call' = Call("copy_replace", n, hasSrc, hasDst, nd)

CallIter ==
  \E o \in Offsets :
    /\ pc = "ready"
    /\ Account(iter(rb, o), <<>>, 0)
    /\ call' = Call("iter", o, FALSE, FALSE, 0)

CallIterMut ==
  \E o \in Offsets :
    LET n == Len(iter_mut_slots(rb, o).idx)
        r == iter_mut(rb, o, Fresh(n))
    IN
    /\ pc = "ready"
    /\ written + n <= MaxWrites
    /\ rb' = r.buf
    /\ ret' = r.out
    /\ pc' = IF r.ok THEN "returned" ELSE "panicked"
    /\ stream' = IF r.ok
                 THEN SubSeq(stream, 1, Len(stream) - n) \o Fresh(n)
                 ELSE stream
    /\ written' = IF r.ok THEN written + n ELSE written
    /\ removed' = removed
    /\ UNCHANGED sdvars
    /\ call' = Call("iter_mut", o, FALSE, FALSE, 0)

\* the caller has taken what the call handed back and goes on
Return ==
  /\ pc = "returned"
  /\ pc' = "ready"
  /\ ret' = <<>>
  /\ call' = NoCall
  /\ UNCHANGED <<rbvars, sdvars>>

NextRB ==
  \/ Return
  \/ CallRemove
  \/ CallIterAppend
  \/ CallCopyAppend
  \/ CallIterRemove
  \/ CallCopyRemove
  \/ CallIterReplace
  \/ CallCopyReplace
  \/ CallIter
  \/ CallIterMut

SpecRB == InitRB /\ [][NextRB]_vars

----------------------------------------------------------------------------
(* The engine: one action per public method.                               *)

\* largest hop (a quarter of a grain size) of a ladder
MaxHop == 3
\* longest ladder
MaxLadder == 2
\* longest input of one process call: more than a hop
MaxLen == MaxHop + 1
\* most input samples an engine consumes: more than the longest hop
MaxTotal == MaxHop + 2
\* most set_params calls on an engine after the one that configures it
MaxSetParams == 1

Sizes == {4 * h : h \in 1..MaxHop}

\* the ladders new accepts, up to the bounds
Ladders ==
  {l \in UNION {[1..n -> Sizes] : n \in 1..MaxLadder} : ValidSizes(l)}

\* the <<grain_select, delay_select>> set_params is called with
Selects ==
  {<<F32Ratio(1, 2), F32Zero>>, <<F32Ratio(1, 1), F32Zero>>,
   <<F32Zero, F32Ratio(1, 1)>>, <<F32Ratio(1, 1), F32Ratio(1, 1)>>,
   <<F32NaN, F32Zero>>}

\* the fields of an engine a call is judged by
Scalars(e) ==
  [grain_index |-> e.grain_index, grain_size |-> e.grain_size,
   hop |-> e.hop, delay_comp |-> e.delay_comp, offset |-> e.offset,
   params |-> e.params]

\* the parameters with the selects sel, the others at their defaults
WithSelects(sel) ==
  [DefaultParameters EXCEPT !.grain_select = sel[1], !.delay_select = sel[2]]

\* an engine as constructed, or configured by a first set_params before
\* any sample
Init ==
  /\ \E l \in Ladders :
       \/ engine = SpectralDecay_new(l)
       \/ \E sel \in Selects :
            engine = set_params(SpectralDecay_new(l), WithSelects(sel))
  /\ consumed = 0
  /\ nset = 0
  /\ tset = 0
  /\ rb = RingBuffer_new(1, FALSE, DefaultU8)
  /\ stream = <<>>
  /\ written = 0
  /\ removed = 0
  /\ ret = <<>>
  /\ call = NoCall
  /\ pc = "ready"

\* the next n input samples
Input(n) == [k \in 1..n |-> consumed + k]

\* the builds a call of process tells apart: with and without overflow
\* checks where hop - offset underflows; elsewhere the two do the same and
\* one stands for both
OverflowChecks(sd) == IF sd.hop < sd.offset THEN BOOLEAN ELSE {TRUE}

\* process called with the next n samples, while the stream is no longer
\* than total
ProcessWithin(total) ==
  /\ pc = "ready"
  /\ \E n \in 0..MaxLen, outlen \in 0..(MaxLen + 1),
        overflow_checks \in OverflowChecks(engine) :
       LET r == process(engine, Input(n), outlen, overflow_checks) IN
       /\ outlen = n \/ (outlen = n + 1 /\ n <= 1)
       /\ consumed + n <= total
       /\ engine' = r.sd
       /\ ret' = r.out
       /\ pc' = IF r.ok THEN "returned" ELSE "panicked"
       /\ consumed' = IF r.ok THEN consumed + n ELSE consumed
       /\ call' = [op |-> "process", arg |-> n, nd |-> outlen,
                   pre |-> Scalars(engine), grains |-> r.grains,
                   chunks |-> IF r.ok
                              THEN [k \in 1..Len(in_iter(engine, Input(n))) |->
                                      Len(in_iter(engine, Input(n))[k])]
                              ELSE <<>>]
       /\ UNCHANGED <<nset, tset, rbvars>>

CallProcess == ProcessWithin(MaxTotal)

\* set_params called with one of the selects S
SetParamsWith(S) ==
  \E sel \in S :
    /\ pc = "ready"
    /\ nset < MaxSetParams
    /\ engine' = set_params(engine, WithSelects(sel))
    /\ ret' = <<>>
    /\ pc' = "returned"
    /\ nset' = nset + 1
    /\ tset' = consumed
    /\ call' = [op |-> "set_params", arg |-> 0, nd |-> 0,
                pre |-> Scalars(engine), grains |-> 0, chunks |-> <<>>,
                params |-> WithSelects(sel)]
    /\ UNCHANGED <<consumed, rbvars>>

CallSetParams == SetParamsWith(Selects)

Next ==
  \/ CallProcess
  \/ CallSetParams
  \/ Return

Spec == Init /\ [][Next]_vars

----------------------------------------------------------------------------
(* The engine from its construction on: new called with any list of        *)
(* positive sizes, then set_params and process as above.                   *)

\* the state of engine before new has returned
NoEngine == [grains |-> <<>>]

\* the lists of sizes new is called with
SizeLists == UNION {[1..n -> 1..(4 * MaxHop)] : n \in 0..MaxLadder}

InitNew ==
  /\ engine = NoEngine
  /\ consumed = 0
  /\ nset = 0
  /\ tset = 0
  /\ rb = RingBuffer_new(1, FALSE, DefaultU8)
  /\ stream = <<>>
  /\ written = 0
  /\ removed = 0
  /\ ret = <<>>
  /\ call = NoCall
  /\ pc = "unbuilt"

\* SpectralDecay::new(grain_sizes): the asserts, then the constructor
CallNew ==
  \E grain_sizes \in SizeLists :
    /\ pc = "unbuilt"
    /\ IF ValidSizes(grain_sizes)
       THEN /\ engine' = SpectralDecay_new(grain_sizes)
            /\ pc' = "returned"
       ELSE /\ engine' = engine
            /\ pc' = "panicked"
    /\ call' = [op |-> "new", arg |-> 0, nd |-> 0, sizes |-> grain_sizes]
    /\ UNCHANGED <<consumed, nset, tset, ret, rbvars>>

NextNew ==
  \/ CallNew
  \/ CallProcess
  \/ CallSetParams
  \/ Return

SpecNew == InitNew /\ [][NextNew]_vars

----------------------------------------------------------------------------
(* A stream through an engine whose parameters stay as configured: the     *)
(* small ladders and the ladder of tests::sd_delay, long enough for the    *)
(* sample at the delay of that ladder to come out.                         *)

\* ladder of tests::sd_delay and tests::sd_identity
DelayLadder == <<32, 64>>

\* longest stream through such an engine
MaxStream == 44

InitDelay ==
  /\ \E l \in Ladders \cup {DelayLadder} :
       \/ engine = SpectralDecay_new(l)
       \/ \E sel \in Selects :
            engine = set_params(SpectralDecay_new(l), WithSelects(sel))
  /\ consumed = 0
  /\ nset = 0
  /\ tset = 0
  /\ rb = RingBuffer_new(1, FALSE, DefaultU8)
  /\ stream = <<>>
  /\ written = 0
  /\ removed = 0
  /\ ret = <<>>
  /\ call = NoCall
  /\ pc = "ready"

CallProcessStream == ProcessWithin(MaxStream)

NextDelay ==
  \/ CallProcessStream
  \/ Return

SpecDelay == InitDelay /\ [][NextDelay]_vars

----------------------------------------------------------------------------
(* The rules applied to the bins of one grain (process_buffers, lines      *)
(* 164-182): a bin is its magnitude, a whole number; call holds the        *)
(* spectrum and the parameters, ret the bins processed so far.             *)

\* most bins of a spectrum
MaxBins == 2
\* largest magnitude of a bin
MaxNorm == 2

\* lines 153-160: the parameters the loop reads, among them the defaults
\* of the structure (glitch_gain 1.) and of the plug-in (loss 0.5,
\* glitch_freq 0.1, glitch_gain 100.)
SpectrumParams ==
  {[glitch_freq |-> g, glitch_gain |-> a, loss |-> l, fuzz |-> f] :
     g \in {F32Zero, F32Ratio(1, 10), F32Ratio(1, 1)},
     a \in {F32Zero, F32Ratio(1, 1), F32Ratio(2, 1), F32Ratio(100, 1),
            F32Neg(F32Ratio(2, 1))},
     l \in {F32Zero, F32Ratio(1, 2), F32Ratio(1, 1), F32Ratio(2, 1), F32NaN},
     f \in {F32Zero, F32Ratio(1, 2)}}

\* line 163: values of rand(), a u32 over u32::MAX, from 0 to 1
RandDraws == {F32Zero, F32Ratio(1, 80), F32Ratio(1, 2), F32Ratio(1, 1)}

InitGate ==
  /\ \E n \in 1..MaxBins : \E norms \in [1..n -> 0..MaxNorm] :
       \E params \in SpectrumParams :
         call = [op |-> "process_buffers", arg |-> 0, nd |-> 0,
                 norms |-> norms, max_amp |-> max_amp_of(norms),
                 params |-> params]
  /\ ret = <<>>
  /\ pc = "spectrum"
  /\ engine = SpectralDecay_new(<<4>>)
  /\ consumed = 0
  /\ nset = 0
  /\ tset = 0
  /\ rb = RingBuffer_new(1, FALSE, DefaultU8)
  /\ stream = <<>>
  /\ written = 0
  /\ removed = 0

\* one turn of the loop over the bins
ProcessBin ==
  \E draw \in RandDraws, k \in RandDraws :
    /\ pc = "spectrum"
    /\ Len(ret) < Len(call.norms)
    /\ ret' = Append(ret, process_bin(call.norms[Len(ret) + 1], call.max_amp,
                                      call.params, draw, k))
    /\ UNCHANGED <<call, pc, rbvars, sdvars>>

\* the loop is over
SpectrumDone ==
  /\ pc = "spectrum"
  /\ Len(ret) = Len(call.norms)
  /\ pc' = "returned"
  /\ UNCHANGED <<call, ret, rbvars, sdvars>>

NextGate ==
  \/ ProcessBin
  \/ SpectrumDone

SpecGate == InitGate /\ [][NextGate]_vars

----------------------------------------------------------------------------
(* The grain switch on its own: set_params called on engines of two-entry  *)
(* ladders, in every state of the hop cycle, with selects in and out of    *)
(* [0, 1].                                                                 *)

\* largest hop of the ladders the grain switch is explored on
MaxSwitchHop == 22

SwitchLadders ==
  {<<4 * a, 4 * b>> : a \in 1..MaxSwitchHop, b \in 1..MaxSwitchHop}
    \cap {l \in Seq(Nat) : ValidSizes(l)}

\* a ladder of two long grains, a hop of 4097 and one of 4098 samples, where
\* the rounding of the f32 product is coarse enough to reach an integer
WideLadder == <<16388, 16392>>

\* the places in the hop cycle the grain switch is explored at: all of
\* them, and on the long grains the first two and, for the shorter grain,
\* the last
SwitchOffsets(l, i) ==
  IF l = WideLadder
  THEN {0, 1} \cup (IF i = 0 THEN {(l[1] \div 4) - 1} ELSE {})
  ELSE 0..((l[i + 1] \div 4) - 1)

\* grain_select values: 0.0, 0.5, 1.0, -0.5, 2.0 and NaN
WideSelects ==
  {<<F32Zero, F32Zero>>, <<F32Ratio(1, 2), F32Zero>>,
   <<F32Ratio(1, 1), F32Zero>>, <<F32Neg(F32Ratio(1, 2)), F32Zero>>,
   <<F32Ratio(2, 1), F32Zero>>, <<F32NaN, F32Zero>>}

\* the engine of ladder l after set_params selected entry i (0 or 1) and
\* process consumed o samples
EngineAt(l, i, o) ==
  LET e0 == SpectralDecay_new(l)
      e1 == IF i = 0 THEN e0
            ELSE set_params(e0, WithSelects(<<F32Ratio(1, 1), F32Zero>>))
  IN process(e1, [k \in 1..o |-> k], o, TRUE).sd

InitSwitch ==
  /\ \E l \in SwitchLadders \cup {WideLadder}, i \in {0, 1} :
       \E o \in SwitchOffsets(l, i) :
         /\ engine = EngineAt(l, i, o)
         /\ consumed = o
         /\ nset = 0
         /\ tset = 0
  /\ rb = RingBuffer_new(1, FALSE, DefaultU8)
  /\ stream = <<>>
  /\ written = 0
  /\ removed = 0
  /\ ret = <<>>
  /\ call = NoCall
  /\ pc = "ready"

CallSetParamsWide == SetParamsWith(WideSelects)

NextSwitch ==
  \/ CallSetParamsWide
  \/ Return

SpecSwitch == InitSwitch /\ [][NextSwitch]_vars

----------------------------------------------------------------------------
(* The grain switch between long grains, of hops from 2^24 samples, where  *)
(* an offset is no longer an f32.  Buffers of that length are beyond what  *)
(* can be enumerated: the state holds the scalar fields of the engine, its *)
(* ladder and its parameters, and leaves out in_buf, out_buf and time_buf, *)
(* which set_params neither reads nor writes.  A call of process is        *)
(* followed up to line 117, before it reaches a buffer.                    *)

\* hops of long grains: 2^24, 2^25 - 1 and 2^25
LongHops == {16777216, 33554431, 33554432}

LongLadders ==
  {<<4 * a, 4 * b>> : a \in LongHops, b \in LongHops}
    \cap {l \in Seq(Nat) : ValidSizes(l)}

\* lines 51-55, 56 and 68: the scalar fields of SpectralDecay::new, the
\* ladder and the parameters
SpectralDecay_new_scalars(grain_sizes) ==
  [grain_index |-> 0,
   grain_size |-> grain_sizes[1],
   hop |-> grain_sizes[1] \div 4,
   delay_comp |-> (grain_sizes[1] * 5) \div 4,
   offset |-> 0,
   grains |-> grain_sizes,
   params |-> DefaultParameters]

\* the scalar fields of the engine of ladder l after set_params selected
\* entry i (0 or 1) and process consumed o samples, o less than a hop:
\* one chunk of o samples, offset += o and no grain (lines 117-135)
LongEngineAt(l, i, o) ==
  LET e0 == SpectralDecay_new_scalars(l)
      e1 == IF i = 0 THEN e0
            ELSE set_params(e0, WithSelects(<<F32Ratio(1, 1), F32Zero>>))
  IN [e1 EXCEPT !.offset = o]

\* the places in the hop cycle the switch is explored at: the first two,
\* the middle and the last two
LongOffsets(hop) == {0, 1, hop \div 2, hop - 2, hop - 1}

InitLong ==
  /\ \E l \in LongLadders, i \in {0, 1} :
       \E o \in LongOffsets(l[i + 1] \div 4) :
         /\ engine = LongEngineAt(l, i, o)
         /\ consumed = o
         /\ nset = 0
         /\ tset = 0
  /\ rb = RingBuffer_new(1, FALSE, DefaultU8)
  /\ stream = <<>>
  /\ written = 0
  /\ removed = 0
  /\ ret = <<>>
  /\ call = NoCall
  /\ pc = "ready"

\* <<grain_select, delay_select>> within [0, 1]
UnitSelects ==
  {<<F32Zero, F32Zero>>, <<F32Ratio(1, 2), F32Zero>>,
   <<F32Ratio(1, 1), F32Zero>>, <<F32Zero, F32Ratio(1, 1)>>}

CallSetParamsUnit == SetParamsWith(UnitSelects)

\* lines 115-117 of process, called with n samples and an output of outlen
\* samples: the assertion on the lengths and the subtraction
\* hop - offset.  A call that passes both enters the loop over the
\* buffers, where it is not followed.
ProcessEntry ==
  /\ pc = "ready"
  /\ \E n \in 0..1, outlen \in 0..2,
        overflow_checks \in OverflowChecks(engine) :
       /\ outlen \in {n, n + 1}
       /\ pc' = IF n # outlen
                   \/ (engine.hop < engine.offset /\ overflow_checks)
                THEN "panicked" ELSE "looping"
       /\ call' = [op |-> "process", arg |-> n, nd |-> outlen,
                   pre |-> Scalars(engine), grains |-> 0, chunks |-> <<>>]
       /\ ret' = <<>>
       /\ UNCHANGED <<engine, consumed, nset, tset, rbvars>>

NextLong ==
  \/ CallSetParamsUnit
  \/ Return
  \/ ProcessEntry

SpecLong == InitLong /\ [][NextLong]_vars

----------------------------------------------------------------------------
(* The selects on their own: set_params called on engines of ladders of up *)
(* to MaxSelectLadder entries with each select at a step j / K of the      *)
(* ladder, and called again with the parameters the engine has.            *)

\* longest ladder the selects are explored on
MaxSelectLadder == 6

\* the ladder 4, 8, .. of K entries
SelectLadder(K) == [i \in 1..K |-> 4 * i]

\* j as f32 / K as f32 for every step j of the ladder of engine e
StepSelects(e) == {F32Ratio(j, Len(e.grains)) : j \in 0..Len(e.grains)}

InitSelect ==
  /\ \E K \in 1..MaxSelectLadder : engine = SpectralDecay_new(SelectLadder(K))
  /\ consumed = 0
  /\ nset = 0
  /\ tset = 0
  /\ rb = RingBuffer_new(1, FALSE, DefaultU8)
  /\ stream = <<>>
  /\ written = 0
  /\ removed = 0
  /\ ret = <<>>
  /\ call = NoCall
  /\ pc = "ready"

CallSetParamsStep == SetParamsWith(StepSelects(engine) \X StepSelects(engine))

\* set_params called with the parameters the engine has
CallSetParamsAgain ==
  /\ pc = "ready"
  /\ nset > 0
  /\ engine' = set_params(engine, engine.params)
  /\ ret' = <<>>
  /\ pc' = "returned"
  /\ call' = [op |-> "set_params", arg |-> 0, nd |-> 0,
              pre |-> Scalars(engine), grains |-> 0, chunks |-> <<>>,
              params |-> engine.params]
  /\ UNCHANGED <<consumed, nset, tset, rbvars>>

NextSelect ==
  \/ CallSetParamsStep
  \/ CallSetParamsAgain
  \/ Return

SpecSelect == InitSelect /\ [][NextSelect]_vars

----------------------------------------------------------------------------
(* fft_sizes::generate_sizes.  Its f64 arithmetic is computed exactly: an  *)
(* f64 that is not negative is held as the number of 2^-57 it is worth,    *)
(* written in three limbs <<a, b, c>> for a * 2^40 + b * 2^20 + c, and     *)
(* every operation rounds its exact result to 53 significant bits, ties to *)
(* even, as IEEE 754 does.  The values met here are below 2^14 and, but    *)
(* for 0, at least 2^-4, so they are whole numbers of 2^-57.               *)

Limb == 2^20

\* carries propagated
BigNorm(x) ==
  LET b == x[2] + (x[3] \div Limb)
  IN <<x[1] + (b \div Limb), b % Limb, x[3] % Limb>>

BigAdd(x, y) == BigNorm(<<x[1] + y[1], x[2] + y[2], x[3] + y[3]>>)

BigLess(x, y) ==
  \/ x[1] < y[1]
  \/ x[1] = y[1] /\ x[2] < y[2]
  \/ x[1] = y[1] /\ x[2] = y[2] /\ x[3] < y[3]

\* x - y for y <= x
BigSub(x, y) ==
  LET c == x[3] - y[3]
      bc == IF c < 0 THEN 1 ELSE 0
      b == x[2] - y[2] - bc
      bb == IF b < 0 THEN 1 ELSE 0
  IN <<x[1] - y[1] - bb, b + bb * Limb, c + bc * Limb>>

BigMul(x, k) == BigNorm(<<x[1] * k, x[2] * k, x[3] * k>>)

\* quotient and remainder of x by the small number k
BigDivMod(x, k) ==
  LET t2 == (x[1] % k) * Limb + x[2]
      t3 == (t2 % k) * Limb + x[3]
  IN [q |-> <<x[1] \div k, t2 \div k, t3 \div k>>, r |-> t3 % k]

RECURSIVE BitLen(_)
BitLen(v) == IF v = 0 THEN 0 ELSE 1 + BitLen(v \div 2)

BigBitLen(x) ==
  IF x[1] > 0 THEN 40 + BitLen(x[1])
  ELSE IF x[2] > 0 THEN 20 + BitLen(x[2])
  ELSE BitLen(x[3])

\* x, or x and a little more when sticky, rounded to an f64
F64Round(x, sticky) ==
  LET s == BigBitLen(x) - 53
  IN IF s <= 0 THEN x
     ELSE LET r == x[3] % (2^s)
              half == 2^(s - 1)
              odd == (x[3] \div (2^s)) % 2 = 1
              up == \/ r > half
                    \/ r = half /\ (sticky \/ odd)
          IN IF up THEN BigNorm(<<x[1], x[2], x[3] - r + 2^s>>)
             ELSE <<x[1], x[2], x[3] - r>>

\* a value that is not a number
F64NaN == <<>>

\* f64::log2 of 1..64, correctly rounded
Log2Small ==
  <<<<0, 0, 0>>,
    <<131072, 0, 0>>,
    <<207744, 214847, 503040>>,
    <<262144, 0, 0>>,
    <<304339, 796134, 580672>>,
    <<338816, 214847, 503040>>,
    <<367965, 654672, 68416>>,
    <<393216, 0, 0>>,
    <<415488, 429694, 1006080>>,
    <<435411, 796134, 580672>>,
    <<453434, 651289, 479360>>,
    <<469888, 214847, 503040>>,
    <<485024, 36423, 560320>>,
    <<499037, 654672, 68416>>,
    <<512083, 1010982, 35200>>,
    <<524288, 0, 0>>,
    <<535751, 974681, 140800>>,
    <<546560, 429694, 1006080>>,
    <<556784, 372288, 630784>>,
    <<566483, 796134, 580736>>,
    <<575709, 869519, 571520>>,
    <<584506, 651289, 479360>>,
    <<592912, 327894, 240256>>,
    <<600960, 214847, 503040>>,
    <<608679, 543693, 112768>>,
    <<616096, 36423, 560256>>,
    <<623232, 644542, 460544>>,
    <<630109, 654672, 68352>>,
    <<636745, 298837, 208256>>,
    <<643155, 1010982, 35200>>,
    <<649356, 439138, 435968>>,
    <<655360, 0, 0>>,
    <<661178, 866136, 982400>>,
    <<666823, 974681, 140800>>,
    <<672305, 402230, 649088>>,
    <<677632, 429694, 1006080>>,
    <<682813, 494445, 242304>>,
    <<687856, 372288, 630784>>,
    <<692768, 251271, 14848>>,
    <<697555, 796134, 580736>>,
    <<702225, 59086, 550656>>,
    <<706781, 869519, 571520>>,
    <<711231, 392092, 267520>>,
    <<715578, 651289, 479360>>,
    <<719828, 177253, 538240>>,
    <<723984, 327894, 240256>>,
    <<728051, 73365, 852224>>,
    <<732032, 214847, 503040>>,
    <<735931, 260768, 136832>>,
    <<739751, 543693, 112768>>,
    <<743496, 140952, 643840>>,
    <<747168, 36423, 560256>>,
    <<750769, 1037902, 29952>>,
    <<754304, 644542, 460544>>,
    <<757774, 398848, 11520>>,
    <<761181, 654672, 68352>>,
    <<764528, 587136, 85248>>,
    <<767817, 298837, 208256>>,
    <<771049, 828129, 656768>>,
    <<774227, 1010982, 35200>>,
    <<777353, 633663, 1005312>>,
    <<780428, 439138, 435968>>,
    <<783454, 35791, 25984>>,
    <<786432, 0, 0>>>>

\* f64::log2 of the candidate sizes from 65 to 640
Log2Large(x) ==
  CASE x = 72 -> <<808704, 429694, 1006080>>
    [] x = 80 -> <<828627, 796134, 580736>>
    [] x = 84 -> <<837853, 869519, 571520>>
    [] x = 88 -> <<846650, 651289, 479360>>
    [] x = 96 -> <<863104, 214847, 503040>>
    [] x = 100 -> <<870823, 543693, 112768>>
    [] x = 108 -> <<885376, 644542, 460544>>
    [] x = 112 -> <<892253, 654672, 68352>>
    [] x = 120 -> <<905299, 1010982, 35200>>
    [] x = 128 -> <<917504, 0, 0>>
    [] x = 132 -> <<923322, 866136, 982400>>
    [] x = 140 -> <<934449, 402230, 649088>>
    [] x = 144 -> <<939776, 429694, 1006080>>
    [] x = 160 -> <<959699, 796134, 580736>>
    [] x = 168 -> <<968925, 869519, 571520>>
    [] x = 176 -> <<977722, 651289, 479360>>
    [] x = 180 -> <<981972, 177253, 538240>>
    [] x = 192 -> <<994176, 214847, 503040>>
    [] x = 196 -> <<998075, 260768, 136832>>
    [] x = 200 -> <<1001895, 543693, 112768>>
    [] x = 216 -> <<1016448, 644542, 460544>>
    [] x = 220 -> <<1019918, 398848, 11520>>
    [] x = 224 -> <<1023325, 654672, 68352>>
    [] x = 240 -> <<1036371, 1010982, 35200>>
    [] x = 252 -> <<1045598, 35791, 25984>>
    [] x = 256 -> <<1048576, 0, 0>>
    [] x = 264 -> <<1054394, 866136, 982528>>
    [] x = 280 -> <<1065521, 402230, 649216>>
    [] x = 288 -> <<1070848, 429694, 1006080>>
    [] x = 300 -> <<1078567, 758540, 615936>>
    [] x = 308 -> <<1083544, 257385, 547840>>
    [] x = 320 -> <<1090771, 796134, 580608>>
    [] x = 324 -> <<1093120, 859389, 963584>>
    [] x = 336 -> <<1099997, 869519, 571392>>
    [] x = 352 -> <<1108794, 651289, 479232>>
    [] x = 360 -> <<1113044, 177253, 538112>>
    [] x = 384 -> <<1125248, 214847, 503040>>
    [] x = 392 -> <<1129147, 260768, 136704>>
    [] x = 396 -> <<1131067, 32408, 436992>>
    [] x = 400 -> <<1132967, 543693, 112896>>
    [] x = 420 -> <<1142193, 617078, 103680>>
    [] x = 432 -> <<1147520, 644542, 460544>>
    [] x = 440 -> <<1150990, 398848, 11520>>
    [] x = 448 -> <<1154397, 654672, 68352>>
    [] x = 480 -> <<1167443, 1010982, 35072>>
    [] x = 484 -> <<1169013, 254002, 958720>>
    [] x = 504 -> <<1176670, 35791, 25856>>
    [] x = 512 -> <<1179648, 0, 0>>
    [] x = 528 -> <<1185466, 866136, 982528>>
    [] x = 540 -> <<1189716, 392100, 1041408>>
    [] x = 560 -> <<1196593, 402230, 649216>>
    [] x = 576 -> <<1201920, 429694, 1006080>>
    [] x = 588 -> <<1205819, 475615, 639744>>
    [] x = 600 -> <<1209639, 758540, 615936>>
    [] x = 616 -> <<1214616, 257385, 547840>>
    [] x = 640 -> <<1221843, 796134, 580608>>

F64Log2(x) == IF x <= Len(Log2Small) THEN Log2Small[x] ELSE Log2Large(x)

\* i as f64 / d as f64
F64Quot(i, d) ==
  IF d = 0 THEN F64NaN
  ELSE LET dm == BigDivMod(<<i * (2^17), 0, 0>>, d)
       IN F64Round(dm.q, dm.r # 0)

F64Add(x, y) == F64Round(BigAdd(x, y), FALSE)

\* (x - y).abs()
F64AbsDiff(x, y) ==
  IF x = F64NaN \/ y = F64NaN THEN F64NaN
  ELSE IF BigLess(x, y) THEN F64Round(BigSub(y, x), FALSE)
  ELSE F64Round(BigSub(x, y), FALSE)

\* x * (k as f64)
F64Times(x, k) == F64Round(BigMul(x, k), FALSE)

\* x as usize
F64AsUsize(x) == x[1] \div (2^17)

\* the least k with base^k >= x: log(x) to the base, rounded up
RECURSIVE CeilLog(_, _)
CeilLog(base, x) ==
  IF x <= 1 THEN 0 ELSE 1 + CeilLog(base, (x + base - 1) \div base)

primes == <<1, 5, 7, 11>>

\* the values of f2: the powers of two from 4 to the first one not below end
pow2_factors(end) == {2^f2 : f2 \in 2..CeilLog(2, end)}

\* the values of f3: the powers of three up to the first one not below end
pow3_factors(end) == {3^f3 : f3 \in 0..CeilLog(3, end)}

\* the test with the lower limit left out
in_range_to_end(x, start, end) == x <= end

\* if x >= start && x <= end
in_range(x, start, end) == x >= start /\ x <= end

\* the products f2 * f3 * p1 * p2 within [start, end]; no two of the loop's
\* products are equal
candidate_set(start, end) ==
  {x \in {f2 * f3 * primes[ij[1]] * primes[ij[2]] :
            f2 \in pow2_factors(end), f3 \in pow3_factors(end),
            ij \in {p \in (1..Len(primes)) \X (1..Len(primes)) : p[1] <= p[2]}} :
     in_range(x, start, end)}

\* candidates.sort()
RECURSIVE SortedSeq(_)
SortedSeq(S) ==
  IF S = {} THEN <<>>
  ELSE LET m == CHOOSE x \in S : \A y \in S : x <= y
       IN <<m>> \o SortedSeq(S \ {m})

\* ((endf.log2() - startf.log2()) * div_per_oct) as usize + 1; the cast of
\* a negative number is 0
num_sizes_of(start, end, div_per_oct) ==
  IF end < start THEN 1
  ELSE F64AsUsize(F64Times(F64AbsDiff(F64Log2(end), F64Log2(start)),
                           div_per_oct)) + 1

\* startf.log2() + i as f64 / div_per_oct
ideal_of(start, i, div_per_oct) ==
  IF div_per_oct = 0 THEN F64NaN
  ELSE F64Add(F64Log2(start), F64Quot(i, div_per_oct))

\* Iterator::min_by on the distances d, from the k-th on, best being the
\* index kept so far: a later element replaces it when it compares less,
\* and partial_cmp(..).unwrap() panics on NaN (index 0)
RECURSIVE min_by_from(_, _, _)
min_by_from(d, k, best) ==
  IF k > Len(d) THEN best
  ELSE IF d[k] = F64NaN \/ d[best] = F64NaN THEN 0
  ELSE min_by_from(d, k + 1, IF BigLess(d[k], d[best]) THEN k ELSE best)

\* min_by over all the distances: 0 when there is none or a NaN is compared
min_by(d) == IF d = <<>> THEN 0 ELSE min_by_from(d, 2, 1)

\* (x - ideal).abs() of every candidate's logarithm x
distances(candidates, ideal) ==
  [k \in 1..Len(candidates) |-> F64AbsDiff(F64Log2(candidates[k]), ideal)]

\* generate_sizes(start, end, div_per_oct): ok is FALSE when it panics
generate_sizes(start, end, div_per_oct) ==
  LET candidates == SortedSeq(candidate_set(start, end))
      num_sizes == num_sizes_of(start, end, div_per_oct)
      index == [i \in 1..num_sizes |->
                  min_by(distances(candidates,
                                   ideal_of(start, i - 1, div_per_oct)))]
  IN IF \E i \in 1..num_sizes : index[i] = 0
     THEN [ok |-> FALSE, sizes |-> <<>>]
     ELSE [ok |-> TRUE,
           sizes |-> [i \in 1..num_sizes |-> candidates[index[i]]]]

(* generate_sizes called with any small start, end and div_per_oct, and    *)
(* with a start and an end among the three-digit sizes; the engine is then *)
(* built on the result as the plug-in builds it.                           *)

\* largest start and end of the small requests
MaxSize == 32

\* largest div_per_oct
MaxDiv == 2

SizeRequests ==
  ((1..MaxSize) \X (1..MaxSize) \X (0..MaxDiv))
    \cup {<<420, 600, d>> : d \in 0..MaxDiv}

InitSizes ==
  /\ \E r \in SizeRequests :
       call = [op |-> "generate_sizes", arg |-> 0, nd |-> 0,
               start |-> r[1], end |-> r[2], div_per_oct |-> r[3]]
  /\ engine = NoEngine
  /\ consumed = 0
  /\ nset = 0
  /\ tset = 0
  /\ rb = RingBuffer_new(1, FALSE, DefaultU8)
  /\ stream = <<>>
  /\ written = 0
  /\ removed = 0
  /\ ret = <<>>
  /\ pc = "request"

\* fft_sizes::generate_sizes(start, end, div_per_oct)
CallGenerateSizes ==
  /\ pc = "request"
  /\ LET g == generate_sizes(call.start, call.end, call.div_per_oct)
     IN /\ ret' = g.sizes
        /\ pc' = IF g.ok THEN "generated" ELSE "panicked"
  /\ UNCHANGED <<call, engine, consumed, nset, tset, rbvars>>

\* SpectralDecay::new(grain_sizes) on the generated sizes
CallNewGenerated ==
  /\ pc = "generated"
  /\ IF ValidSizes(ret)
     THEN /\ engine' = SpectralDecay_new(ret)
          /\ pc' = "ready"
     ELSE /\ engine' = engine
          /\ pc' = "panicked"
  /\ UNCHANGED <<call, ret, consumed, nset, tset, rbvars>>

NextSizes ==
  \/ CallGenerateSizes
  \/ CallNewGenerated

SpecSizes == InitSizes /\ [][NextSizes]_vars

----------------------------------------------------------------------------
(* Properties of the ring buffer.                                           *)

\* the live region as the data model defines it: len elements from start,
\* wrapping modulo the capacity
Live(b) == [k \in 1..b.len |-> b.data[((b.start + k - 1) % b.size) + 1]]

LastOf(s, k) == SubSeq(s, Len(s) - k + 1, Len(s))

\* the call c, made on buffer b, violates its precondition
PreconditionFails(c, b) ==
  \/ c.op \in {"iter_append", "copy_append"} /\ c.arg > b.size - b.len
  \/ c.op \in {"remove", "iter_remove", "copy_remove"} /\ c.arg > b.len
  \/ c.op \in {"iter_replace", "copy_replace"} /\ b.len # b.size
  \/ c.op \in {"iter_replace", "copy_replace"} /\ c.arg > b.size
  \/ c.op = "copy_replace" /\ ~c.hasSrc /\ ~c.hasDst
  \/ c.op = "copy_replace" /\ c.hasSrc /\ c.hasDst /\ c.arg # c.nd
  \/ c.op \in {"iter", "iter_mut"} /\ ~(-b.len <= c.arg /\ c.arg < b.len)

\* C1: after any sequence of calls whose preconditions hold, len() is what
\* was appended minus what was removed, iter_remove / copy_remove hand back
\* the n oldest elements in insertion order, iter(0) yields the len() live
\* elements oldest first, whatever len() is, and iter(-k) the last k
\* appended, also when the live region wraps; and no call whose
\* precondition holds panics.
C1_AppendRemoveFifo ==
  /\ pc = "panicked" => PreconditionFails(call, rb)
  /\ pc # "panicked" =>
       /\ RingBuffer_len(rb) = Len(stream) - removed
       /\ iter(rb, 0).ok
       /\ iter(rb, 0).out = SubSeq(stream, removed + 1, Len(stream))
       /\ \A k \in 1..rb.len :
            /\ iter(rb, -k).ok
            /\ iter(rb, -k).out = LastOf(stream, k)
       /\ (pc = "returned" /\ call.op \in {"iter_remove", "copy_remove"}) =>
            ret = SubSeq(stream, removed - call.arg + 1, removed)

\* C1, as the code has it: the same, but iter(0) yields the live elements
\* only of a buffer that holds some; on a buffer that holds none, as
\* created or after everything was removed, iter(0) panics, offset 0
\* not being below len().
C1_FifoWhileNonEmpty ==
  /\ pc = "panicked" => PreconditionFails(call, rb)
  /\ pc # "panicked" =>
       /\ RingBuffer_len(rb) = Len(stream) - removed
       /\ rb.len > 0 =>
            /\ iter(rb, 0).ok
            /\ iter(rb, 0).out = SubSeq(stream, removed + 1, Len(stream))
       /\ rb.len = 0 => ~iter(rb, 0).ok
       /\ \A k \in 1..rb.len :
            /\ iter(rb, -k).ok
            /\ iter(rb, -k).out = LastOf(stream, k)
       /\ (pc = "returned" /\ call.op \in {"iter_remove", "copy_remove"}) =>
            ret = SubSeq(stream, removed - call.arg + 1, removed)

\* a buffer created empty has handed back, in order, two or more elements
\* that lay across the end of the backing array
C1_Witness ==
  /\ pc = "returned"
  /\ call.op = "copy_remove"
  /\ call.arg >= 2
  /\ 0 < rb.start
  /\ rb.start < call.arg
  /\ stream[1] = 1
  /\ ret = SubSeq(stream, removed - call.arg + 1, removed)

\* C2: after every operation 0 <= start < capacity and 0 <= len <= capacity.
C2_StartLenInRange ==
  /\ 0 <= rb.start
  /\ rb.start < rb.size
  /\ 0 <= rb.len
  /\ rb.len <= rb.size

\* C3: on a full buffer copy_replace with n elements copies the n oldest
\* live elements, in order, to the destination, makes the same n slots the
\* n newest elements holding the source values (zero without a source) and
\* leaves len at the capacity; so a full buffer always holds the last
\* `capacity` elements of everything that entered it.
C3_SlideReplace ==
  /\ [](pc # "panicked" /\ rb.len = rb.size =>
          Live(rb) = LastOf(stream, rb.size))
  /\ [][(pc = "ready" /\ pc' = "returned" /\ call'.op = "copy_replace") =>
          LET n == call'.arg
              vals == IF call'.hasSrc THEN Fresh(n) ELSE Fill(n, DefaultU8)
          IN
          /\ rb.len = rb.size
          /\ rb'.len = rb'.size
          /\ rb'.size = rb.size
          /\ n <= rb.size
          /\ call'.hasDst => ret' = SubSeq(Live(rb), 1, n)
          /\ Live(rb') = SubSeq(Live(rb), n + 1, rb.size) \o vals
          /\ \A k \in 0..(n - 1) :
               (rb.start + k) % rb.size
                 = (rb'.start + rb.size - n + k) % rb.size]_vars

\* a replace with source and destination has handed back elements lying
\* across the end of the backing array, one of them written by an earlier
\* replace
C3_Witness ==
  /\ pc = "returned"
  /\ call.op = "copy_replace"
  /\ call.hasSrc
  /\ call.hasDst
  /\ call.arg >= 2
  /\ 0 < rb.start
  /\ rb.start < call.arg
  /\ ret[call.arg] # DefaultU8
  /\ rb.len = rb.size

\* C4: a call that violates its precondition panics and leaves the buffer
\* as it was; on an empty buffer every iter / iter_mut offset does.
C4_ViolationsAbort ==
  [][(pc = "ready" /\ call'.op # "none") =>
       /\ PreconditionFails(call', rb) => (pc' = "panicked" /\ rb' = rb)
       /\ (rb.len = 0 /\ call'.op \in {"iter", "iter_mut"}) =>
            pc' = "panicked"]_vars

\* iter(0) has panicked on a buffer that was emptied by removing elements
C4_Witness ==
  /\ pc = "panicked"
  /\ call.op = "iter"
  /\ call.arg = 0
  /\ rb.len = 0
  /\ removed > 0

(***************************************************************************)
(* Properties of the engine.                                               *)
(***************************************************************************)

\* the call that has just returned was a set_params that moved the engine
\* to another ladder index
SwitchedGrain ==
  /\ pc = "returned"
  /\ call.op = "set_params"
  /\ call.pre.grain_index # engine.grain_index

\* ... from a size within a factor of 2 of the new one, inclusive
SoftSwitch ==
  /\ SwitchedGrain
  /\ Abs(engine.grain_size - call.pre.grain_size)
       <= Min(engine.grain_size, call.pre.grain_size)

\* C5: between calls, and after a call that panicked, 0 <= offset < hop and
\* hop is a quarter of the active grain size, which is the ladder entry at
\* the active index.
C5_OffsetBelowHop ==
  /\ 0 <= engine.offset
  /\ engine.offset < engine.hop
  /\ 4 * engine.hop = engine.grain_size
  /\ engine.grain_index \in 0..(Len(engine.grains) - 1)
  /\ engine.grain_size = engine.grains[engine.grain_index + 1]

\* the engine has moved, in the middle of a hop, to a grain of another
\* size within a factor of 2 and stands in the middle of the new hop
C5_Witness ==
  /\ SoftSwitch
  /\ call.pre.offset > 0
  /\ call.pre.hop # engine.hop
  /\ engine.offset > 0
  /\ consumed > 0

\* the contributions that the grains triggered up to sample T have added
\* to the output sample at 0-based stream position j, when the engine e has
\* had its present parameters since before the first sample: a grain is
\* triggered at every multiple t of the hop, reads the last grain_size
\* input samples and adds its slot n at position t + delay - grain_size + n
GrainsInto(e, T, j) ==
  {t \in 1..T : /\ t % e.hop = 0
                /\ j - t - (delay(e) - e.grain_size) \in 0..(e.grain_size - 1)}

RECURSIVE Ascending(_)
Ascending(S) ==
  IF S = {} THEN <<>>
  ELSE LET m == CHOOSE x \in S : \A y \in S : x <= y
       IN <<m>> \o Ascending(S \ {m})

ExpectedSample(e, T, j) ==
  LET ts == Ascending(GrainsInto(e, T, j)) IN
  [i \in 1..Len(ts) |->
     <<Max(ts[i] - e.grain_size + 1, 0), ts[i],
       j - ts[i] - (delay(e) - e.grain_size)>>]

\* the engine after T samples is what any split of them into calls gives
SplitIndependent(e, T) ==
  /\ e.offset = T % e.hop
  /\ Live(e.in_buf) = [k \in 1..e.in_buf.size |-> Max(T - e.in_buf.size + k, 0)]
  /\ Live(e.out_buf) = [k \in 1..e.out_buf.size |-> ExpectedSample(e, T, T + k - 1)]
  /\ T >= e.hop => e.time_buf[1][2] = (T \div e.hop) * e.hop

\* what a process call that has just returned did, but for the sizes of
\* the chunks after the first
ProcessedInChunks ==
  LET o == call.pre.offset
      L == call.arg
      hop == call.pre.hop
  IN
  /\ call.grains = (o + L) \div hop
  /\ engine.offset = (o + L) % hop
  /\ engine.hop = hop
  /\ call.chunks[1] = Min(L, hop - o)
  /\ Len(ret) = L
  /\ tset = 0 =>
       ret = [k \in 1..L |-> ExpectedSample(engine, consumed, consumed - L + k - 1)]

\* C6 as stated: a process call of length L started at offset o processes
\* floor((o + L) / hop) grains and ends with offset (o + L) mod hop, its
\* first chunk being min(L, hop - o) samples and every later one hop
\* samples; with parameters unchanged the trigger positions, buffer
\* contents and output are the same however the stream is split.
C6_AllLaterChunksWhole ==
  /\ (pc # "panicked" /\ tset = 0) => SplitIndependent(engine, consumed)
  /\ (pc = "returned" /\ call.op = "process") =>
       /\ ProcessedInChunks
       /\ \A k \in 2..Len(call.chunks) : call.chunks[k] = call.pre.hop

\* C6: the same, the last chunk being the 1..hop samples left over: every
\* chunk between the first and the last is hop samples.
C6_ChunkedProcessing ==
  /\ (pc # "panicked" /\ tset = 0) => SplitIndependent(engine, consumed)
  /\ (pc = "returned" /\ call.op = "process") =>
       /\ ProcessedInChunks
       /\ \A k \in 2..(Len(call.chunks) - 1) : call.chunks[k] = call.pre.hop
       /\ Len(call.chunks) >= 2 =>
            LET last == call.chunks[Len(call.chunks)] IN
            /\ 1 <= last
            /\ last <= call.pre.hop
            /\ last % call.pre.hop = (call.arg - call.chunks[1]) % call.pre.hop

\* a call that started in the middle of a hop has run a short first chunk,
\* a whole one and a short last one, and returned output that a grain had
\* added to
C6_Witness ==
  /\ pc = "returned"
  /\ call.op = "process"
  /\ tset = 0
  /\ call.pre.offset > 0
  /\ Len(call.chunks) = 3
  /\ call.chunks[3] < call.pre.hop
  /\ call.grains = 2
  /\ \E k \in 1..Len(ret) : ret[k] # ZeroOut

\* old_offset * new_hop / old_hop of the switch that has just returned,
\* rounded down
ExactPhaseFloor == (call.pre.offset * engine.hop) \div call.pre.hop

\* C7: when set_params moves the engine to a ladder entry whose size is
\* more than a factor of 2 from the old one, offset becomes 0 and hop a
\* quarter of the new size; at exactly a factor of 2 the offset is not
\* reset but carried over in proportion to the hops.
C7_HardReset ==
  SwitchedGrain =>
    LET old == call.pre.grain_size
        new == engine.grain_size
    IN
    /\ new = engine.grains[engine.grain_index + 1]
    /\ old = engine.grains[call.pre.grain_index + 1]
    /\ Abs(new - old) > Min(old, new) =>
         /\ engine.offset = 0
         /\ engine.hop = new \div 4
    /\ Abs(new - old) = Min(old, new) =>
         /\ engine.hop = new \div 4
         /\ engine.offset <= ExactPhaseFloor
         /\ engine.offset >= ExactPhaseFloor - 1

\* a switch to a size more than twice the old one has reset an offset that
\* was not 0
C7_Witness ==
  /\ SwitchedGrain
  /\ engine.grain_size > 2 * call.pre.grain_size
  /\ call.pre.offset > 0
  /\ engine.offset = 0

\* a switch to exactly twice the old size has kept the engine in the
\* middle of the hop
C7_WitnessFactor2 ==
  /\ SwitchedGrain
  /\ engine.grain_size = 2 * call.pre.grain_size
  /\ call.pre.offset > 0
  /\ engine.offset > 0

ExactPhaseRest == (call.pre.offset * engine.hop) % call.pre.hop

\* the parts of old_hop that the two roundings to single precision, of the
\* quotient and of the product, can move the phase by: new_hop / 2^22,
\* a single part while old_hop * new_hop <= 2^22
PhaseSlack == ((call.pre.hop * engine.hop) + (2^22 - 1)) \div (2^22)

SoftOffsetRoundedUp ==
  /\ SoftSwitch
  /\ call.pre.hop * engine.hop > 2^22
  /\ ExactPhaseRest # 0
  /\ engine.offset = ExactPhaseFloor + 1

\* C9: after a soft switch the new offset differs from
\* old_offset * new_hop / old_hop by less than one sample, and a switch
\* between two entries of equal size leaves offset and hop as they were.
C9_PhasePreserved ==
  SoftSwitch =>
    /\ Abs(engine.offset * call.pre.hop - call.pre.offset * engine.hop)
         < call.pre.hop
    /\ engine.grain_size = call.pre.grain_size =>
         /\ engine.offset = call.pre.offset
         /\ engine.hop = call.pre.hop

\* the ladder index that a select of 0 or of 1 stands for: the first entry
\* and the last
IndexOfSelect(e, select) ==
  IF select = F32Ratio(1, 1) THEN Len(e.grains) - 1 ELSE 0

\* the delay_select in force, received at construction or by set_params,
\* selects the largest ladder size
LargestDelaySelected ==
  /\ engine.params.delay_select \in {F32Zero, F32Ratio(1, 1)}
  /\ engine.grains[IndexOfSelect(engine, engine.params.delay_select) + 1]
       = engine.grains[Len(engine.grains)]

\* C10: delay() is the larger of grain_size + hop and delay_comp; while
\* the delay_select in force selects the largest ladder size it is 5/4 of
\* that size, the delay of an engine built with that size alone, whichever
\* grain is active and whatever has been processed.
C10_DelayPinned ==
  /\ delay(engine) >= engine.grain_size + engine.hop
  /\ delay(engine) >= engine.delay_comp
  /\ delay(engine) \in {engine.grain_size + engine.hop, engine.delay_comp}
  /\ LargestDelaySelected =>
       /\ 4 * delay(engine) = 5 * engine.grains[Len(engine.grains)]
       /\ delay(engine)
            = delay(SpectralDecay_new(<<engine.grains[Len(engine.grains)]>>))

\* with the largest size selected for the delay by an earlier call, a
\* set_params has moved the engine to a smaller grain after samples were
\* processed, and the delay is above that of the active grain
C10_Witness ==
  /\ SwitchedGrain
  /\ LargestDelaySelected
  /\ call.pre.params.delay_select = engine.params.delay_select
  /\ call.pre.grain_size = engine.grains[Len(engine.grains)]
  /\ engine.grain_size < call.pre.grain_size
  /\ consumed > 0
  /\ delay(engine) > engine.grain_size + engine.hop

\* the ladder index a select stands for among K entries: select * K
\* rounded down and kept within 0..K-1, 0 for a NaN
LadderIndexOf(K, select) ==
  IF select.nan \/ select.neg \/ select.m = 0 THEN 0
  ELSE Min((select.m * K) \div (2 ^ (-select.e)), K - 1)

\* C11: set_params stores the parameters it is given as they are; it
\* changes grain_index, grain_size, hop and offset only when grain_select
\* stands for another ladder index than the active one; it changes
\* delay_comp only when delay_select changed, and then to 5/4 of the size
\* at the index delay_select stands for, whatever grain is active; and it
\* leaves the ladder, the input buffer, the output buffer and the scratch
\* buffer as they were.
C11_SetParamsFrame ==
  [][(pc = "ready" /\ call'.op = "set_params") =>
       LET p == call'.params
           K == Len(engine.grains)
           gi == LadderIndexOf(K, p.grain_select)
           di == LadderIndexOf(K, p.delay_select)
       IN
       /\ pc' = "returned"
       /\ engine'.params = p
       /\ gi = engine.grain_index =>
            /\ engine'.grain_index = engine.grain_index
            /\ engine'.grain_size = engine.grain_size
            /\ engine'.hop = engine.hop
            /\ engine'.offset = engine.offset
       /\ gi # engine.grain_index => engine'.grain_index = gi
       /\ p.delay_select = engine.params.delay_select /\ ~p.delay_select.nan =>
            engine'.delay_comp = engine.delay_comp
       /\ engine'.delay_comp # engine.delay_comp =>
            4 * engine'.delay_comp = 5 * engine.grains[di + 1]
       /\ engine'.grains = engine.grains
       /\ engine'.in_buf = engine.in_buf
       /\ engine'.out_buf = engine.out_buf
       /\ engine'.time_buf = engine.time_buf]_vars

\* in the middle of a stream a set_params has moved the delay
\* compensation to the largest size and left the smaller active grain,
\* its hop and its offset alone
C11_Witness ==
  /\ pc = "returned"
  /\ call.op = "set_params"
  /\ consumed > 0
  /\ engine.params = call.params
  /\ call.pre.delay_comp < engine.delay_comp
  /\ 4 * engine.delay_comp = 5 * engine.grains[Len(engine.grains)]
  /\ engine.grain_size < engine.grains[Len(engine.grains)]
  /\ engine.grain_index = call.pre.grain_index
  /\ engine.offset = call.pre.offset
  /\ engine.offset > 0

\* the 0-based output stream position of live slot k of the output buffer
\* and of element k of what the last process call returned
SlotPosition(k) == consumed + k - 1

ReturnedPosition(k) == consumed - call.arg + k - 1

\* contribution c = <<first, t, n>> lies at output position j as it should:
\* it is sample n of a grain processed after t samples, a multiple of the
\* hop, that read the input positions from t - grain_size (zero before the
\* start of the stream), and j is t - grain_size + n + delay()
WellPlaced(c, j) ==
  /\ c[2] \in 1..consumed
  /\ c[2] % engine.hop = 0
  /\ c[3] \in 0..(engine.grain_size - 1)
  /\ c[1] = Max(c[2] - engine.grain_size + 1, 0)
  /\ j = c[2] - engine.grain_size + c[3] + delay(engine)

\* the contributions of the sample at 0-based input position i
FromInput(sample, i) ==
  {k \in 1..Len(sample) : sample[k][2] - engine.grain_size + sample[k][3] = i}

\* C12: with the parameters fixed since before the first sample, a grain
\* processed after t samples reads the input positions [t - grain_size, t),
\* zeros before the start, and its sample n is added to the output slot
\* emitted at position t - grain_size + n + delay(), and nowhere else; so
\* input position i reaches the output at position i + delay() only.  On
\* the ladder [32, 64] with default parameters delay() is 40 and the sample
\* at input position 0 comes out at output position 40.
C12_GrainPlacement ==
  pc # "panicked" =>
    /\ LastOf(Live(engine.in_buf), engine.grain_size)
         = [k \in 1..engine.grain_size |->
              Max(consumed - engine.grain_size + k, 0)]
    /\ \A k \in 1..engine.out_buf.size :
         LET slot == Live(engine.out_buf)[k] IN
         /\ \A i \in 1..Len(slot) : WellPlaced(slot[i], SlotPosition(k))
         /\ \A t \in 1..consumed :
              LET n == SlotPosition(k) - delay(engine) + engine.grain_size - t
              IN (t % engine.hop = 0 /\ n \in 0..(engine.grain_size - 1)) =>
                   \E i \in 1..Len(slot) : slot[i][2] = t /\ slot[i][3] = n
    /\ (pc = "returned" /\ call.op = "process") =>
         \A k \in 1..Len(ret) :
           /\ \A i \in 1..Len(ret[k]) : WellPlaced(ret[k][i], ReturnedPosition(k))
           /\ \A t \in 1..consumed :
                LET n == ReturnedPosition(k) - delay(engine)
                           + engine.grain_size - t
                IN (t % engine.hop = 0 /\ n \in 0..(engine.grain_size - 1)) =>
                     \E i \in 1..Len(ret[k]) :
                       ret[k][i][2] = t /\ ret[k][i][3] = n
           /\ \A i \in 0..(consumed - 1) :
                FromInput(ret[k], i) # {} =>
                  ReturnedPosition(k) = i + delay(engine)
    /\ (engine.grains = DelayLadder /\ engine.params = DefaultParameters) =>
         /\ delay(engine) = 40
         /\ (pc = "returned" /\ call.op = "process") =>
              \A k \in 1..Len(ret) :
                FromInput(ret[k], 0) # {} <=> ReturnedPosition(k) = 40

\* on the ladder [32, 64] with default parameters the sample at output
\* position 40 has been returned, and the grain processed after 32 samples
\* has added to it the sample it read at input position 0
C12_Witness ==
  /\ pc = "returned"
  /\ call.op = "process"
  /\ engine.grains = DelayLadder
  /\ engine.params = DefaultParameters
  /\ delay(engine) = 40
  /\ consumed > 40
  /\ \E k \in 1..Len(ret) :
       /\ ReturnedPosition(k) = 40
       /\ \E i \in 1..Len(ret[k]) : ret[k][i] = <<1, 32, 0>>

\* the largest size of the ladder of engine e
LargestSize(e) == e.grains[Len(e.grains)]

\* C13: in every state of the engine the input buffer is full with
\* len == capacity == the largest grain size and the output buffer is full
\* with len == capacity == 5/4 of it; a process call of n samples slides
\* both by n: the input buffer then holds the latest samples of what it
\* held followed by the input, the output buffer has handed out n samples
\* and its head has moved on by n; a call that panics and set_params
\* touch neither.
C13_BuffersStayFull ==
  /\ [](/\ RingBuffer_len(engine.in_buf) = LargestSize(engine)
        /\ engine.in_buf.size = LargestSize(engine)
        /\ Len(engine.in_buf.data) = LargestSize(engine)
        /\ 4 * RingBuffer_len(engine.out_buf) = 5 * LargestSize(engine)
        /\ engine.out_buf.size = RingBuffer_len(engine.out_buf)
        /\ Len(engine.out_buf.data) = RingBuffer_len(engine.out_buf))
  /\ [][(pc = "ready" /\ pc' = "returned" /\ call'.op = "process") =>
          LET n == call'.arg IN
          /\ Live(engine'.in_buf)
               = LastOf(Live(engine.in_buf) \o Input(n), LargestSize(engine))
          /\ Len(ret') = n
          /\ engine'.out_buf.start % engine.out_buf.size
               = (engine.out_buf.start + n) % engine.out_buf.size]_vars
  /\ [][(pc = "ready" /\ pc' = "panicked") => engine' = engine]_vars
  /\ [][(pc = "ready" /\ call'.op = "set_params") =>
          /\ engine'.in_buf = engine.in_buf
          /\ engine'.out_buf = engine.out_buf]_vars

\* after a set_params, a process call of more than a hop has slid both
\* buffers past the end of their backing arrays or onto it
C13_Witness ==
  /\ pc = "returned"
  /\ call.op = "process"
  /\ call.arg > call.pre.hop
  /\ call.grains >= 1
  /\ nset >= 1
  /\ engine.in_buf.start > 0
  /\ engine.in_buf.start + call.arg > engine.in_buf.size
  /\ engine.in_buf.len = engine.in_buf.size
  /\ engine.out_buf.len = engine.out_buf.size

\* C14: process called with input and output of different lengths panics
\* having consumed nothing, returned nothing and left the engine, its
\* offset and its buffers as they were; new panics, building nothing, when
\* the list of sizes is empty, holds a size that is no multiple of 4, or
\* holds a size above a later one.
C14_EngineViolationsAbort ==
  /\ [][(pc = "ready" /\ call'.op = "process" /\ call'.arg # call'.nd) =>
          /\ pc' = "panicked"
          /\ engine' = engine
          /\ consumed' = consumed
          /\ ret' = <<>>]_vars
  /\ [][(pc = "unbuilt" /\ call'.op = "new") =>
          LET l == call'.sizes IN
          (\/ Len(l) = 0
           \/ \E i \in 1..Len(l) : l[i] % 4 # 0
           \/ \E i \in 1..Len(l) : \E j \in i..Len(l) : l[i] > l[j]) =>
            /\ pc' = "panicked"
            /\ engine' = NoEngine]_vars
  /\ [](pc = "panicked" => (call.op = "new" \/ call.arg # call.nd))

\* in the middle of a hop, after a grain was processed, a process call
\* with an output longer than its input has panicked
C14_Witness ==
  /\ pc = "panicked"
  /\ call.op = "process"
  /\ call.arg = 1
  /\ call.nd = 2
  /\ consumed > engine.hop
  /\ engine.offset > 0

\* new has panicked on sizes that are multiples of 4 in descending order
C14_WitnessNew ==
  /\ pc = "panicked"
  /\ call.op = "new"
  /\ Len(call.sizes) = 2
  /\ call.sizes[1] % 4 = 0
  /\ call.sizes[2] % 4 = 0
  /\ call.sizes[1] > call.sizes[2]
  /\ engine = NoEngine

RECURSIVE SumOf(_)
SumOf(q) == IF q = <<>> THEN 0 ELSE Head(q) + SumOf(Tail(q))

\* C15: from every state of the engine a process call with input and
\* output of one length n >= 0 returns; its chunks, none empty after the
\* first, make up the n samples; the input buffer then holds the latest
\* samples of what it held followed by the n samples in their order; and
\* element k of the output is the sample that lay k-th in the output
\* buffer, with what the grains of this call added after it.
C15_ProcessCompletes ==
  [][(pc = "ready" /\ call'.op = "process" /\ call'.arg = call'.nd) =>
       LET n == call'.arg
           old == Live(engine.out_buf)
       IN
       /\ pc' = "returned"
       /\ consumed' = consumed + n
       /\ SumOf(call'.chunks) = n
       /\ \A k \in 2..Len(call'.chunks) : call'.chunks[k] > 0
       /\ Live(engine'.in_buf)
            = LastOf(Live(engine.in_buf) \o Input(n), LargestSize(engine))
       /\ Len(ret') = n
       /\ \A k \in 1..Min(n, Len(old)) :
            /\ Len(ret'[k]) >= Len(old[k])
            /\ SubSeq(ret'[k], 1, Len(old[k])) = old[k]]_vars

\* C15, the termination alone: a call of process with input and output of
\* equal length does not abort, whatever state of the engine it is made
\* in.
C15_EqualLengthsReturn ==
  (pc = "panicked" /\ call.op = "process") => call.arg # call.nd

\* set_params has left the offset beyond the hop
OffsetBeyondHop ==
  /\ pc = "returned"
  /\ call.op = "set_params"
  /\ call.pre.offset < call.pre.hop
  /\ engine.offset > engine.hop

\* after a switch of grain in the middle of the stream, a call that began
\* in the middle of a hop and is longer than a hop has returned all its
\* samples, one of them holding a contribution
C15_Witness ==
  /\ pc = "returned"
  /\ call.op = "process"
  /\ tset > 0
  /\ call.pre.offset > 0
  /\ call.arg > call.pre.hop
  /\ call.grains >= 1
  /\ Len(ret) = call.arg
  /\ \E k \in 1..Len(ret) : ret[k] # ZeroOut

\* a call of no samples has returned
C15_WitnessEmpty ==
  /\ pc = "returned"
  /\ call.op = "process"
  /\ call.arg = 0
  /\ call.chunks = <<0>>
  /\ consumed > 0

\* C16: when every bin of a grain is silent (max_amp == 0) the
\* gate is skipped: for no bin is the ratio of its magnitude to max_amp
\* evaluated, and no bin is zeroed by the gate, whatever loss is.
C16_SilentGateSkipped ==
  (call.op = "process_buffers" /\ call.max_amp = 0) =>
    \A i \in 1..Len(ret) :
      /\ ret[i].ratio = <<>>
      /\ ret[i].rule # "gate"

\* What the code does with a silent grain: no bin is zeroed by the gate,
\* whatever loss is, but the gate is not skipped: for every bin that does
\* not glitch the ratio is evaluated, 0.0 / 0.0, and is a NaN, which is
\* below no loss.
SilentGateNaN ==
  (call.op = "process_buffers" /\ call.max_amp = 0) =>
    \A i \in 1..Len(ret) :
      /\ ret[i].rule # "gate"
      /\ ret[i].norm = <<F32Zero>>
      /\ ret[i].rule # "glitch" => ret[i].ratio = <<F32NaN>>
      /\ ret[i].rule = "glitch" => ret[i].ratio = <<>>

\* the bins of a silent grain have all been processed with a loss above 0,
\* one of them by the rule of fuzz after its ratio was evaluated
SilentGateReached ==
  /\ pc = "returned"
  /\ call.op = "process_buffers"
  /\ call.max_amp = 0
  /\ Len(ret) = MaxBins
  /\ F32Lt(F32Zero, call.params.loss)
  /\ \E i \in 1..Len(ret) : ret[i].rule = "fuzz" /\ ret[i].ratio = <<F32NaN>>

----------------------------------------------------------------------------
(* Properties of generate_sizes.                                           *)

\* x with every factor p taken out
RECURSIVE Without(_, _)
Without(x, p) == IF x % p = 0 THEN Without(x \div p, p) ELSE x

\* the products p1 * p2 of two of 1, 5, 7 and 11
PrimePairs == {p1 * p2 : p1 \in {1, 5, 7, 11}, p2 \in {1, 5, 7, 11}}

\* x is 2^a * 3^b * p1 * p2 with a >= 2
SizeForm(x) ==
  /\ x > 0
  /\ x % 4 = 0
  /\ Without(Without(x, 2), 3) \in PrimePairs

\* C17: when generate_sizes returns, every size of the result lies in
\* [start, end], is divisible by 4 and is a product 2^a * 3^b * p1 * p2
\* with a >= 2 and p1, p2 among 1, 5, 7 and 11.
C17_SizesWellFormed ==
  pc = "generated" =>
    \A k \in 1..Len(ret) :
      /\ call.start <= ret[k] /\ ret[k] <= call.end
      /\ ret[k] % 4 = 0
      /\ SizeForm(ret[k])

\* generate_sizes returned sizes with a factor 3 and with a factor 5, 7 or
\* 11 among them
C17_Witness ==
  /\ pc = "generated"
  /\ \E k \in 1..Len(ret) : ret[k] % 3 = 0
  /\ \E k \in 1..Len(ret) : Without(Without(ret[k], 2), 3) > 1

\* b^n
RECURSIVE Power(_, _)
Power(b, n) == IF n = 0 THEN 1 ELSE b * Power(b, n - 1)

\* the largest n from k on with start^d * 2^n <= end^d, for start <= end:
\* floor((log2(end) - log2(start)) * d) in the real numbers
RECURSIVE FloorOctavesFrom(_, _, _, _)
FloorOctavesFrom(start, end, d, k) ==
  IF Power(start, d) * Power(2, k + 1) <= Power(end, d)
  THEN FloorOctavesFrom(start, end, d, k + 1)
  ELSE k

FloorOctaves(start, end, d) == FloorOctavesFrom(start, end, d, 0)

\* C18: generate_sizes returns exactly
\* floor((log2(end) - log2(start)) * div_per_oct) + 1 sizes, in
\* non-decreasing order, and the result passes the ordering and
\* divisibility assertions of SpectralDecay::new.
C18_CountAndOrder ==
  pc = "generated" =>
    /\ Len(ret) = FloorOctaves(call.start, call.end, call.div_per_oct) + 1
    /\ \A k \in 1..(Len(ret) - 1) : ret[k] <= ret[k + 1]
    /\ ValidSizes(ret)

\* what holds of the count: it is the real count or, where the logarithms
\* of start and end are an exact number of divisions apart and the f64
\* difference falls short of it, one less; the order and the assertions of
\* new hold as stated
GeneratedCountAndOrder ==
  pc = "generated" =>
    /\ Len(ret) \in {FloorOctaves(call.start, call.end, call.div_per_oct),
                     FloorOctaves(call.start, call.end, call.div_per_oct) + 1}
    /\ Len(ret) = FloorOctaves(call.start, call.end, call.div_per_oct) =>
         Power(call.start, call.div_per_oct) * Power(2, Len(ret))
           = Power(call.end, call.div_per_oct)
    /\ \A k \in 1..(Len(ret) - 1) : ret[k] <= ret[k + 1]
    /\ ValidSizes(ret)

\* generate_sizes returned one size less than the real count
GeneratedCountShort ==
  /\ pc = "generated"
  /\ Len(ret) = FloorOctaves(call.start, call.end, call.div_per_oct)
  /\ \E k \in 1..(Len(ret) - 1) : ret[k] < ret[k + 1]

\* the number n in limbs, and x * b^n
BigOf(n) == BigNorm(<<0, 0, n>>)

RECURSIVE BigTimesPower(_, _, _)
BigTimesPower(x, b, n) ==
  IF n = 0 THEN x ELSE BigTimesPower(BigMul(x, b), b, n - 1)

\* every size of the stated form within [start, end]
Candidates(start, end) == {x \in start..end : SizeForm(x)}

\* in the real numbers, log2(x) is nearer than log2(y) to
\* log2(start) + i / d: with T = start^d * 2^i, the d-th powers of x and y
\* are compared with T when they lie on the same side of it, and their
\* product with T^2 when T lies between them
RealNearer(x, y, start, i, d) ==
  LET X == Power(x, d)
      Y == Power(y, d)
      T == Power(start, d) * Power(2, i)
      XY == BigTimesPower(BigTimesPower(BigOf(1), x, d), y, d)
      TT == BigTimesPower(BigTimesPower(BigOf(1), start, 2 * d), 4, i)
  IN IF X >= T /\ Y >= T THEN X < Y
     ELSE IF X <= T /\ Y <= T THEN X > Y
     ELSE IF X < T THEN BigLess(TT, XY)
     ELSE BigLess(XY, TT)

\* C19: for each i the i-th size returned is the candidate whose logarithm
\* is nearest to log2(start) + i / div_per_oct, the smaller one of two
\* candidates equally near; generate_sizes(8, 32, 2) returns
\* [8, 12, 16, 24, 32].
C19_NearestSmallerOnTie ==
  pc = "generated" /\ call.div_per_oct >= 1 =>
    /\ \A k \in 1..Len(ret) :
         /\ ret[k] \in Candidates(call.start, call.end)
         /\ \A c \in Candidates(call.start, call.end) :
              /\ ~RealNearer(c, ret[k], call.start, k - 1, call.div_per_oct)
              /\ RealNearer(ret[k], c, call.start, k - 1, call.div_per_oct)
                   \/ ret[k] <= c
    /\ call.start = 8 /\ call.end = 32 /\ call.div_per_oct = 2 =>
         ret = <<8, 12, 16, 24, 32>>

\* what holds of the choice: no candidate is nearer than the size returned,
\* and the test of fft_sizes.rs passes
GeneratedNearest ==
  pc = "generated" /\ call.div_per_oct >= 1 =>
    /\ \A k \in 1..Len(ret) :
         /\ ret[k] \in Candidates(call.start, call.end)
         /\ \A c \in Candidates(call.start, call.end) :
              ~RealNearer(c, ret[k], call.start, k - 1, call.div_per_oct)
    /\ call.start = 8 /\ call.end = 32 /\ call.div_per_oct = 2 =>
         ret = <<8, 12, 16, 24, 32>>

\* generate_sizes returned the larger of two candidates equally near
GeneratedLargerOnTie ==
  /\ pc = "generated"
  /\ call.div_per_oct >= 1
  /\ \E k \in 1..Len(ret) :
       \E c \in Candidates(call.start, call.end) :
         /\ c < ret[k]
         /\ ~RealNearer(ret[k], c, call.start, k - 1, call.div_per_oct)

\* generate_sizes returned the smaller of two candidates equally near
GeneratedSmallerOnTie ==
  /\ pc = "generated"
  /\ call.div_per_oct >= 1
  /\ \E k \in 1..Len(ret) :
       \E c \in Candidates(call.start, call.end) :
         /\ c > ret[k]
         /\ ~RealNearer(ret[k], c, call.start, k - 1, call.div_per_oct)

----------------------------------------------------------------------------
(* Properties of the output accumulator.                                   *)

\* the output samples at the 0-based stream positions from c on that the
\* live slots of buffer b hold when c samples have been drained
Held(b, c) == [p \in c..(c + b.size - 1) |-> Live(b)[p - c + 1]]

\* the numbers of samples after which the process call of the step
\* processes a grain: those that complete a hop
GrainTimes ==
  {t \in (consumed + 1)..consumed' :
     (engine.offset + t - consumed) % engine.hop = 0}

\* the sum of f over the numbers from a to b
RECURSIVE SumOver(_, _, _)
SumOver(f, a, b) == IF b < a THEN 0 ELSE f[a] + SumOver(f, a + 1, b)

\* a process call has returned in this step
ProcessStep ==
  /\ pc = "ready"
  /\ pc' = "returned"
  /\ call'.op = "process"

\* what the step did to the output positions: before is what each position
\* from the drain head on held, nothing for a position the buffer had not
\* reached; after is what the call returned for the positions it drained
\* and what the live slots hold for the later ones
DrainedAndAdded ==
  LET first == consumed
      last == consumed' + engine.out_buf.size - 1
      held == Held(engine.out_buf, consumed)
      held2 == Held(engine'.out_buf, consumed')
      before == [p \in first..last |->
                   IF p \in DOMAIN held THEN held[p] ELSE ZeroOut]
      after == [p \in first..last |->
                  IF p < consumed' THEN ret'[p - consumed + 1] ELSE held2[p]]
      added == [p \in first..last |-> Len(after[p]) - Len(before[p])]
  IN
  /\ Len(ret') = consumed' - consumed
  /\ engine'.out_buf.len = engine.out_buf.len
  /\ engine'.out_buf.size = engine.out_buf.size
  /\ Cardinality(GrainTimes) = call'.grains
  /\ \A p \in first..last :
       /\ added[p] >= 0
       /\ SubSeq(after[p], 1, Len(before[p])) = before[p]
       /\ \A i \in (Len(before[p]) + 1)..Len(after[p]) :
            /\ after[p][i][2] \in GrainTimes
            /\ after[p][i][3] \in 0..(engine.grain_size - 1)
            /\ after[p][i][2] <= p
            /\ p < after[p][i][2] + engine.out_buf.size
  /\ \A t \in GrainTimes, n \in 0..(engine.grain_size - 1) :
       \E p \in first..last :
         \E i \in (Len(before[p]) + 1)..Len(after[p]) :
           after[p][i][2] = t /\ after[p][i][3] = n
  /\ SumOver(added, first, last) = call'.grains * engine.grain_size

\* C20: a slot of the output buffer that process drains into the caller's
\* output comes back as the newest slot holding zero, and a grain adds only
\* to live slots not yet drained.  So, whatever process and set_params
\* calls came before: after a process call every output position, returned
\* or still in the buffer, holds what it held before the call followed by
\* samples of the grains of this call only, a position that came into the
\* buffer during the call having held nothing; every sample of every grain
\* of the call is held, there are no more samples added than the grains
\* have, and each lies at a position that was not yet drained when its
\* grain was processed and was in the buffer then; and set_params leaves
\* the output buffer alone.
C20_DrainAndOverlapAdd ==
  [][/\ ProcessStep => DrainedAndAdded
     /\ (pc = "ready" /\ pc' = "returned" /\ call'.op = "set_params") =>
          engine'.out_buf = engine.out_buf]_vars

\* after a set_params in the middle of the stream a process call has
\* processed a grain and has returned a sample that grains had added to
C20_Witness ==
  /\ pc = "returned"
  /\ call.op = "process"
  /\ tset > 0
  /\ call.grains >= 1
  /\ \E k \in 1..Len(ret) : ret[k] # ZeroOut
  /\ \E k \in 1..engine.out_buf.size : Live(engine.out_buf)[k] # ZeroOut

----------------------------------------------------------------------------
(* Properties of the engine as a whole.                                    *)

\* C21: on an engine built from a valid ladder no set_params call and no
\* process call with input and output of the same length panics: the only
\* call that does is a process call whose lengths differ.  Between calls
\* the offset is below the hop, so hop - offset does not underflow; the hop
\* and every chunk fit the buffers; the grain fits the input buffer;
\* hop <= delay() - grain_size and delay() is no more than the capacity of
\* the output buffer, which is full, so the overlap-add of a grain reaches
\* grain_size live slots.
C21_NoAbort ==
  /\ pc = "panicked" => (call.op = "process" /\ call.arg # call.nd)
  /\ engine.offset >= 0
  /\ engine.offset < engine.hop
  /\ engine.hop <= engine.in_buf.size
  /\ engine.hop <= engine.out_buf.size
  /\ engine.grain_size <= engine.in_buf.len
  /\ engine.grain_size <= Len(engine.time_buf)
  /\ engine.hop <= delay(engine) - engine.grain_size
  /\ delay(engine) <= engine.out_buf.size
  /\ engine.out_buf.len = engine.out_buf.size
  /\ LET sl == iter_mut_slots(engine.out_buf, delay(engine) - engine.grain_size)
     IN sl.ok /\ Len(sl.idx) >= engine.grain_size
  /\ (pc = "returned" /\ call.op = "process") =>
       \A k \in 1..Len(call.chunks) :
         /\ call.chunks[k] <= call.pre.hop
         /\ call.chunks[k] <= engine.in_buf.size
         /\ call.chunks[k] <= engine.out_buf.size

\* C21, as the scalar fields of the engine decide it: of the calls of
\* set_params and of process with input and output of equal length none
\* aborts, hop - offset does not underflow, a hop and the active grain
\* are no longer than the input buffer (the largest grain), and
\* hop <= delay() - grain_size and delay() is within the capacity of the
\* output buffer (5/4 of the largest grain).
C21_NoUnderflow ==
  /\ pc = "panicked" => (call.op = "process" /\ call.arg # call.nd)
  /\ engine.offset >= 0
  /\ engine.hop - engine.offset >= 0
  /\ engine.hop <= LargestSize(engine)
  /\ engine.grain_size <= LargestSize(engine)
  /\ engine.hop <= delay(engine) - engine.grain_size
  /\ delay(engine) <= (LargestSize(engine) \div 4) * 5

\* after a set_params in the middle of a hop has moved the engine to
\* another grain, a process call of several chunks has processed a grain
\* whose overlap-add reached the newest slot of the output buffer
C21_Witness ==
  /\ pc = "returned"
  /\ call.op = "process"
  /\ tset > 0
  /\ tset < consumed
  /\ engine.grain_index # 0
  /\ call.pre.offset > 0
  /\ call.grains >= 1
  /\ Len(call.chunks) >= 2
  /\ delay(engine) = engine.out_buf.size
  /\ Live(engine.out_buf)[engine.out_buf.size] # ZeroOut

\* floor(select * K) in the real numbers, for a select that is a number
\* and not negative
FloorOfProduct(select, K) ==
  IF select.e >= 0 THEN select.m * (2^select.e) * K
  ELSE (select.m * K) \div (2^(-select.e))

\* min(floor(select * K), K - 1) for the ladder of engine e
StepOf(e, select) ==
  Min(FloorOfProduct(select, Len(e.grains)), Len(e.grains) - 1)

\* the last set_params call was made with the parameters the engine had
CalledAgain ==
  /\ pc = "returned"
  /\ call.op = "set_params"
  /\ call.params = call.pre.params

\* C22: in every state grain_index is min(floor(grain_select * K), K - 1)
\* for the stored grain_select and the ladder length K, grain_size is the
\* ladder entry at grain_index, and delay_comp is 5/4 of the ladder entry
\* at min(floor(delay_select * K), K - 1) for the stored delay_select; and
\* a set_params call with the parameters the engine has changes nothing.
C22_DerivedFromParams ==
  /\ ~engine.params.grain_select.nan =>
       engine.grain_index = StepOf(engine, engine.params.grain_select)
  /\ engine.grain_size = engine.grains[engine.grain_index + 1]
  /\ ~engine.params.delay_select.nan =>
       4 * engine.delay_comp
         = 5 * engine.grains[StepOf(engine, engine.params.delay_select) + 1]
  /\ CalledAgain => Scalars(engine) = call.pre

\* what holds: the same with the products select * K rounded to f32 as
\* select_to_index computes them
DerivedFromParamsF32 ==
  /\ engine.grain_index = select_to_index(engine, engine.params.grain_select)
  /\ engine.grain_size = engine.grains[engine.grain_index + 1]
  /\ 4 * engine.delay_comp
       = 5 * engine.grains[select_to_index(engine, engine.params.delay_select) + 1]
  /\ CalledAgain => Scalars(engine) = call.pre

\* the engine stands on a ladder entry above the one of
\* floor(grain_select * K)
SelectRoundedUp ==
  /\ ~engine.params.grain_select.nan
  /\ engine.grain_index > StepOf(engine, engine.params.grain_select)

\* set_params has been called again on an engine that stands on a ladder
\* entry other than the first, with another delay compensation
CalledAgainReached ==
  /\ CalledAgain
  /\ engine.grain_index > 0
  /\ engine.delay_comp > engine.grain_size + engine.hop

\* the multiples of the hop in (j - delay(), j - delay() + grain_size]
GrainsOver(j) ==
  {t \in (j - delay(engine) + 1)..(j - delay(engine) + engine.grain_size) :
     t % engine.hop = 0}

\* C23: with the grain size and the delay as they were before the first
\* sample, every sample process returns for a stream position
\* j >= delay() is the sum of exactly 4 contributions, one from each of
\* the 4 consecutive grains processed at the multiples of the hop in
\* (j - delay(), j - delay() + grain_size], each the sample of its grain
\* that lies at j, so at window positions a hop apart; all 4 are in the
\* sample when it is returned, however the stream is cut into calls.
C23_FourGrainsOverlap ==
  (pc = "returned" /\ call.op = "process" /\ tset = 0) =>
    \A k \in 1..Len(ret) :
      ReturnedPosition(k) >= delay(engine) =>
        LET j == ReturnedPosition(k)
            s == ret[k]
        IN
        /\ Len(s) = 4
        /\ Cardinality(GrainsOver(j)) = 4
        /\ {s[i][2] : i \in 1..4} = GrainsOver(j)
        /\ \A i \in 1..4 :
             /\ s[i][2] >= 1
             /\ s[i][2] < j
             /\ s[i][3] = j - delay(engine) + engine.grain_size - s[i][2]
             /\ s[i][3] \in 0..(engine.grain_size - 1)
             /\ s[i][1] = Max(s[i][2] - engine.grain_size + 1, 0)
        /\ \A i \in 1..3 :
             /\ s[i + 1][2] = s[i][2] + engine.hop
             /\ s[i + 1][3] = s[i][3] - engine.hop

\* a call that started in the middle of a hop has returned a sample at a
\* position from delay() on that holds the contributions of 4 grains, the
\* first of which read zeros from before the start of the stream and the
\* last of which read input samples only
C23_Witness ==
  /\ pc = "returned"
  /\ call.op = "process"
  /\ tset = 0
  /\ call.pre.offset > 0
  /\ engine.hop > 1
  /\ \E k \in 1..Len(ret) :
       /\ ReturnedPosition(k) >= delay(engine)
       /\ Len(ret[k]) = 4
       /\ ret[k][1][1] = 0
       /\ ret[k][4][1] > 0

====
